---- MODULE Spec2Model ----
(***************************************************************************)
(* cipher.background: the four scope helpers of contextmanagers.py and the *)
(* main loop of BackgroundWorkerThread (thread.py).                        *)
(*                                                                         *)
(* One thread is modelled.  Init picks what the thread does:               *)
(*   mode = "worker": the thread executes BackgroundWorkerThread.run();    *)
(*   mode = "client": the thread uses the scope helpers directly, in any   *)
(*                    nesting, as the doctests of test_contextmanagers do. *)
(* The thread-local collaborators (security interaction, current site,     *)
(* transaction manager) and the database handle's counters are state.      *)
(***************************************************************************)
EXTENDS Integers, Sequences, FiniteSets, TLC

VARIABLES
    mode,         \* "worker" or "client"
    pc,           \* position of the thread in run() / in the client body
    exc,          \* exception in flight, NoExc when none
    pending,      \* exception held by the try/finally of run() (line 106)
    interaction,  \* queryInteraction() is not None, for this thread
    site,         \* hooks.getSite(), for this thread
    db,           \* the database handle: [opened, closed] counters
    conn,         \* the connection yielded by run()'s ZodbConnection
    tm,           \* the thread's transaction manager: [txns, cur]
    log,          \* records written with log.exception()
    calls,        \* the hooks run() has invoked, with their outcomes
    it,           \* locals of the current iteration of run()
    held,         \* scopes entered and not yet exited, in order of entry
    lifo,         \* every exit so far was the exit of the innermost scope
    stack,        \* client: frames of the with-statements entered
    lastExit,     \* the last exit of a ZopeTransaction scope
    start         \* the thread's state before run() / the client started

vars == <<mode, pc, exc, pending, interaction, site, db, conn, tm, log,
          calls, it, held, lifo, stack, lastExit, start>>

----------------------------------------------------------------------------
(* Bounds *)

MaxIter == 2     \* scheduleNextWork() returns True at most MaxIter times
MaxDepth == 2    \* client: with-statements nested at most MaxDepth deep
MaxTxns == 2     \* client: transactions on the thread at most
MaxOpen == 1     \* client: connections opened at most

----------------------------------------------------------------------------
(* Values *)

NoExc == "none"
NoSite == "None"
TheSite == "testsite"             \* the object getSite(conn) returns
Sites == {TheSite, "outer", "inner"}
UserNames == {"", "someuser"}     \* user_name given to the constructor

ThreadName == "background worker thread"

\* thread.py:120 and thread.py:122
IterationMsg == "Exception in " \o ThreadName
TerminatedMsg == "Exception in " \o ThreadName \o ", thread terminated"

----------------------------------------------------------------------------
(* The transaction manager (package transaction), as contextmanagers.py    *)
(* uses it: begin(), commit(), abort() and the transaction's setUser(),    *)
(* note().  tm.txns is every transaction ever created on the thread,       *)
(* tm.cur the index of the ambient one, 0 when there is none.              *)

NewTxn == [status |-> "active", user |-> "", note |-> "", joined |-> FALSE,
           discarded |-> FALSE]

\* transaction.get(): the ambient transaction, created when there is none
TxnGet(m) ==
    IF m.cur # 0 THEN m
    ELSE [txns |-> Append(m.txns, NewTxn), cur |-> Len(m.txns) + 1]

\* transaction.commit(): commits the ambient transaction
TxnCommit(m) ==
    LET g == TxnGet(m)
    IN [txns |-> [g.txns EXCEPT ![g.cur].status = "committed"], cur |-> 0]

\* transaction.abort(): aborts the ambient transaction
TxnAbort(m) ==
    LET g == TxnGet(m)
    IN [txns |-> [g.txns EXCEPT ![g.cur].status = "aborted"], cur |-> 0]

\* TxnBegin with a fault: the new scope carries on with the ambient transaction
TxnBegin_Join(m) ==
    IF m.cur # 0 THEN m
    ELSE [txns |-> Append(m.txns, NewTxn), cur |-> Len(m.txns) + 1]

\* transaction.begin(): "acts the same as transaction.abort(), i.e. discards
\* the previous transaction", then starts a new one
TxnBegin(m) ==
    LET a == IF m.cur = 0 THEN m.txns
             ELSE [m.txns EXCEPT ![m.cur].status = "aborted",
                                 ![m.cur].discarded = TRUE]
    IN [txns |-> Append(a, NewTxn), cur |-> Len(a) + 1]

\* txn.setUser(user, path): the transaction's user becomes "<path> <user>"
SetUser(m, user, path) ==
    [m EXCEPT !.txns[m.cur].user = path \o " " \o user]

\* txn.note(note)
SetNote(m, note) ==
    [m EXCEPT !.txns[m.cur].note = note]

\* ZopeTransactionEnter with a fault: the note is not attached
ZopeTransactionEnter_NoNote(m, user, note) ==
    LET b == TxnBegin(m)
    IN IF user # "" THEN SetUser(b, user, "/") ELSE b

\* ZopeTransaction, up to the yield
ZopeTransactionEnter(m, user, note) ==
    LET b == TxnBegin(m)
        u == IF user # "" THEN SetUser(b, user, "/") ELSE b
    IN IF note # "" THEN SetNote(u, note) ELSE u

\* ZopeTransactionExit with a fault: commits in a finally clause
ZopeTransactionExit_AlwaysCommit(m, e) == TxnCommit(m)

\* ZopeTransaction, after the yield: e is the exception the body raised
ZopeTransactionExit(m, e) ==
    IF e = NoExc THEN TxnCommit(m) ELSE TxnAbort(m)

\* the ambient transaction that the exit of a ZopeTransaction finishes
AmbientAtExit(m) == TxnGet(m).cur

----------------------------------------------------------------------------
(* The other three helpers *)

\* db.open() in ZodbConnection; ConnectionStub.__init__ counts it
DbOpen(d) == [d EXCEPT !.opened = @ + 1]

\* DbClose with a fault: the connection is not closed
DbClose_Leak(d) == d

\* conn.close(), called by closing() when ZodbConnection exits
DbClose(d) == [d EXCEPT !.closed = @ + 1]

\* a scope is entered: it becomes the innermost one held
Acquire(h, k) == Append(h, k)

\* a scope is exited
IsInnermost(h, k) == Len(h) > 0 /\ h[Len(h)] = k

RECURSIVE Release(_, _)
Release(h, k) ==
    IF Len(h) = 0 THEN h
    ELSE IF h[Len(h)] = k THEN SubSeq(h, 1, Len(h) - 1)
    ELSE Append(Release(SubSeq(h, 1, Len(h) - 1), k), h[Len(h)])

----------------------------------------------------------------------------
(* BackgroundWorkerThread *)

\* getTransactionNote(): work_transaction_note is "%(thread_name)s"
getTransactionNote == ThreadName

\* getCleanupNote(): cleanup_transaction_note is "%(thread_name)s cleanup"
getCleanupNote == ThreadName \o " cleanup"

\* the locals of one iteration of the while loop of run(): its number, the
\* site getSite(conn) returned, the oldsite ZopeSite remembered, the
\* transactions the two ZopeTransaction scopes began, the records logged
NoIteration == [n |-> 0, siteobj |-> NoSite, oldsite |-> NoSite,
                workTxn |-> 0, cleanupTxn |-> 0, logged |-> 0]

Call(hook, result) == [hook |-> hook, result |-> result]

NoExit == [txn |-> 0, yielded |-> 0, excIn |-> NoExc, excOut |-> NoExc]

\* contextmanagers.py:108: the bare raise re-raises the exception caught
Reraise(e) == e

\* what the exit of a ZopeTransaction scope did: the ambient transaction it
\* finished, the transaction y it had yielded, the exception the body
\* raised, the exception it re-raised
ExitRecord(m, e, y) ==
    [txn |-> AmbientAtExit(m), yielded |-> y, excIn |-> e,
     excOut |-> Reraise(e)]

\* ScheduleNextWork with a fault: a false result is taken for a failure
ScheduleNextWork_FalseTerminates ==
    /\ mode = "worker" /\ pc = "scheduleNextWork"
    /\ \E r \in {"True", "False", "raise"} :
          /\ r = "True" => it.n < MaxIter
          /\ calls' = Append(calls, Call("scheduleNextWork", r))
          /\ pc' = IF r = "True" THEN "ZopeInteraction" ELSE "terminated"
          /\ exc' = IF r = "raise" THEN "ScheduleError" ELSE NoExc
          /\ it' = IF r = "True" THEN [NoIteration EXCEPT !.n = it.n + 1]
                   ELSE it
    /\ UNCHANGED <<mode, pending, interaction, site, db, conn, tm, log, held,
                   lifo, stack, lastExit, start>>

\* thread.py:96  while self.scheduleNextWork():
ScheduleNextWork ==
    /\ mode = "worker" /\ pc = "scheduleNextWork"
    /\ \E r \in {"True", "False", "raise"} :
          /\ r = "True" => it.n < MaxIter
          /\ calls' = Append(calls, Call("scheduleNextWork", r))
          /\ pc' = CASE r = "True" -> "ZopeInteraction"
                    [] r = "False" -> "done"
                    [] OTHER -> "terminated"
          /\ exc' = IF r = "raise" THEN "ScheduleError" ELSE NoExc
          /\ it' = IF r = "True" THEN [NoIteration EXCEPT !.n = it.n + 1]
                   ELSE it
    /\ UNCHANGED <<mode, pending, interaction, site, db, conn, tm, log, held,
                   lifo, stack, lastExit, start>>

\* EnterZopeInteraction with a fault: the with-statement of thread.py:97 is
\* inside the try of thread.py:99
EnterZopeInteraction_Inside ==
    /\ mode = "worker" /\ pc = "ZopeInteraction"
    /\ IF interaction
       THEN /\ exc' = "InteractionError"
            /\ pc' = "except"
            /\ UNCHANGED <<interaction, held>>
       ELSE /\ interaction' = TRUE
            /\ held' = Acquire(held, "interaction")
            /\ pc' = "ZodbConnection"
            /\ UNCHANGED exc
    /\ UNCHANGED <<mode, pending, site, db, conn, tm, log, calls, it, lifo,
                   stack, lastExit, start>>

\* thread.py:97  with ZopeInteraction():  -- newInteraction() raises when the
\* thread already has an interaction; the with-statement is outside the
\* inner try, so the error reaches the outer handler
EnterZopeInteraction ==
    /\ mode = "worker" /\ pc = "ZopeInteraction"
    /\ IF interaction
       THEN /\ exc' = "InteractionError"
            /\ pc' = "terminated"
            /\ UNCHANGED <<interaction, held>>
       ELSE /\ interaction' = TRUE
            /\ held' = Acquire(held, "interaction")
            /\ pc' = "ZodbConnection"
            /\ UNCHANGED exc
    /\ UNCHANGED <<mode, pending, site, db, conn, tm, log, calls, it, lifo,
                   stack, lastExit, start>>

\* thread.py:98  with ZodbConnection(self.site_db) as conn:
EnterZodbConnection ==
    /\ mode = "worker" /\ pc = "ZodbConnection"
    /\ db' = DbOpen(db)
    /\ conn' = "open"
    /\ held' = Acquire(held, "connection")
    /\ pc' = "getSite"
    /\ UNCHANGED <<mode, exc, pending, interaction, site, tm, log, calls, it,
                   lifo, stack, lastExit, start>>

\* thread.py:100  self.getSite(conn)  = connection.get(self.site_oid)
GetSite ==
    /\ mode = "worker" /\ pc = "getSite"
    /\ it' = [it EXCEPT !.siteobj = TheSite]
    /\ pc' = "ZopeSite"
    /\ UNCHANGED <<mode, exc, pending, interaction, site, db, conn, tm, log,
                   calls, held, lifo, stack, lastExit, start>>

\* thread.py:100  with ZopeSite(...):  -- oldsite = getSite(); setSite(site)
EnterZopeSite ==
    /\ mode = "worker" /\ pc = "ZopeSite"
    /\ it' = [it EXCEPT !.oldsite = site]
    /\ site' = it.siteobj
    /\ held' = Acquire(held, "site")
    /\ pc' = "workTransaction"
    /\ UNCHANGED <<mode, exc, pending, interaction, db, conn, tm, log, calls,
                   lifo, stack, lastExit, start>>

\* thread.py:102-104  with ZopeTransaction(user=..., note=getTransactionNote())
EnterWorkTransaction ==
    /\ mode = "worker" /\ pc = "workTransaction"
    /\ tm' = ZopeTransactionEnter(tm, start.user_name, getTransactionNote)
    /\ it' = [it EXCEPT !.workTxn = tm'.cur]
    /\ held' = Acquire(held, "transaction")
    /\ pc' = "doWork"
    /\ UNCHANGED <<mode, exc, pending, interaction, site, db, conn, log,
                   calls, lifo, stack, lastExit, start>>

\* thread.py:105  self.doWork()
DoWork ==
    /\ mode = "worker" /\ pc = "doWork"
    /\ \E r \in {"return", "raise"} :
          /\ calls' = Append(calls, Call("doWork", r))
          /\ exc' = IF r = "raise" THEN "WorkError" ELSE NoExc
    /\ pc' = "exitWorkTransaction"
    /\ UNCHANGED <<mode, pending, interaction, site, db, conn, tm, log, it,
                   held, lifo, stack, lastExit, start>>

\* ExitWorkTransaction with a fault: no finally clause, an exception of
\* doWork() skips the cleanup
ExitWorkTransaction_NoFinally ==
    /\ mode = "worker" /\ pc = "exitWorkTransaction"
    /\ tm' = ZopeTransactionExit(tm, exc)
    /\ lastExit' = ExitRecord(tm, exc, it.workTxn)
    /\ lifo' = (lifo /\ IsInnermost(held, "transaction"))
    /\ held' = Release(held, "transaction")
    /\ pc' = IF exc # NoExc THEN "exitZopeSite" ELSE "cleanupTransaction"
    /\ UNCHANGED <<mode, exc, pending, interaction, site, db, conn, log,
                   calls, it, stack, start>>

\* the work ZopeTransaction exits (contextmanagers.py:105-108); an exception
\* is then held by the finally clause of thread.py:106
ExitWorkTransaction ==
    /\ mode = "worker" /\ pc = "exitWorkTransaction"
    /\ tm' = ZopeTransactionExit(tm, exc)
    /\ lastExit' = ExitRecord(tm, exc, it.workTxn)
    /\ lifo' = (lifo /\ IsInnermost(held, "transaction"))
    /\ held' = Release(held, "transaction")
    /\ pending' = Reraise(exc)
    /\ exc' = NoExc
    /\ pc' = "cleanupTransaction"
    /\ UNCHANGED <<mode, interaction, site, db, conn, log, calls, it, stack,
                   start>>

\* EnterCleanupTransaction with a fault: the cleanup gets no transaction of
\* its own
EnterCleanupTransaction_Reuse ==
    /\ mode = "worker" /\ pc = "cleanupTransaction"
    /\ it' = [it EXCEPT !.cleanupTxn = tm.cur]
    /\ held' = Acquire(held, "transaction")
    /\ pc' = "doCleanup"
    /\ UNCHANGED <<mode, exc, pending, interaction, site, db, conn, tm, log,
                   calls, lifo, stack, lastExit, start>>

\* thread.py:112-114  with ZopeTransaction(user=..., note=getCleanupNote())
EnterCleanupTransaction ==
    /\ mode = "worker" /\ pc = "cleanupTransaction"
    /\ tm' = ZopeTransactionEnter(tm, start.user_name, getCleanupNote)
    /\ it' = [it EXCEPT !.cleanupTxn = tm'.cur]
    /\ held' = Acquire(held, "transaction")
    /\ pc' = "doCleanup"
    /\ UNCHANGED <<mode, exc, pending, interaction, site, db, conn, log,
                   calls, lifo, stack, lastExit, start>>

\* thread.py:115  self.doCleanup()
DoCleanup ==
    /\ mode = "worker" /\ pc = "doCleanup"
    /\ \E r \in {"return", "raise"} :
          /\ calls' = Append(calls, Call("doCleanup", r))
          /\ exc' = IF r = "raise" THEN "CleanupError" ELSE NoExc
    /\ pc' = "exitCleanupTransaction"
    /\ UNCHANGED <<mode, pending, interaction, site, db, conn, tm, log, it,
                   held, lifo, stack, lastExit, start>>

\* ExitCleanupTransaction with a fault: the cleanup transaction is left open
ExitCleanupTransaction_KeepOpen ==
    /\ mode = "worker" /\ pc = "exitCleanupTransaction"
    /\ exc' = IF exc # NoExc THEN Reraise(exc) ELSE pending
    /\ pending' = NoExc
    /\ pc' = "exitZopeSite"
    /\ UNCHANGED <<mode, interaction, site, db, conn, tm, log, calls, it,
                   held, lifo, stack, lastExit, start>>

\* ExitCleanupTransaction with a fault: the exception held by the finally
\* clause wins over the one of the cleanup
ExitCleanupTransaction_PendingWins ==
    /\ mode = "worker" /\ pc = "exitCleanupTransaction"
    /\ tm' = ZopeTransactionExit(tm, exc)
    /\ lastExit' = ExitRecord(tm, exc, it.cleanupTxn)
    /\ lifo' = (lifo /\ IsInnermost(held, "transaction"))
    /\ held' = Release(held, "transaction")
    /\ exc' = IF pending # NoExc THEN pending ELSE Reraise(exc)
    /\ pending' = NoExc
    /\ pc' = "exitZopeSite"
    /\ UNCHANGED <<mode, interaction, site, db, conn, log, calls, it, stack,
                   start>>

\* the cleanup ZopeTransaction exits and the finally clause ends: an
\* exception of the cleanup replaces the one held, else the held one is
\* re-raised
ExitCleanupTransaction ==
    /\ mode = "worker" /\ pc = "exitCleanupTransaction"
    /\ tm' = ZopeTransactionExit(tm, exc)
    /\ lastExit' = ExitRecord(tm, exc, it.cleanupTxn)
    /\ lifo' = (lifo /\ IsInnermost(held, "transaction"))
    /\ held' = Release(held, "transaction")
    /\ exc' = IF exc # NoExc THEN Reraise(exc) ELSE pending
    /\ pending' = NoExc
    /\ pc' = "exitZopeSite"
    /\ UNCHANGED <<mode, interaction, site, db, conn, log, calls, it, stack,
                   start>>

\* ExitZopeSite with a fault: the except clause of thread.py:116 is missing
ExitZopeSite_Uncaught ==
    /\ mode = "worker" /\ pc = "exitZopeSite"
    /\ site' = it.oldsite
    /\ lifo' = (lifo /\ IsInnermost(held, "site"))
    /\ held' = Release(held, "site")
    /\ pc' = "exitZodbConnection"
    /\ UNCHANGED <<mode, exc, pending, interaction, db, conn, tm, log, calls,
                   it, stack, lastExit, start>>

\* ExitZopeSite with a fault: the site is cleared instead of restored
ExitZopeSite_Clear ==
    /\ mode = "worker" /\ pc = "exitZopeSite"
    /\ site' = NoSite
    /\ lifo' = (lifo /\ IsInnermost(held, "site"))
    /\ held' = Release(held, "site")
    /\ pc' = IF exc # NoExc THEN "except" ELSE "exitZodbConnection"
    /\ UNCHANGED <<mode, exc, pending, interaction, db, conn, tm, log, calls,
                   it, stack, lastExit, start>>

\* ExitZopeSite with a fault: the try of thread.py:99 is around the
\* with-statement of ZodbConnection, the connection is closed before the
\* except clause runs
ExitZopeSite_CloseFirst ==
    /\ mode = "worker" /\ pc = "exitZopeSite"
    /\ site' = it.oldsite
    /\ db' = IF exc # NoExc THEN DbClose(db) ELSE db
    /\ conn' = IF exc # NoExc THEN "closed" ELSE conn
    /\ lifo' = (lifo /\ IsInnermost(held, "site"))
    /\ held' = Release(held, "site")
    /\ pc' = IF exc # NoExc THEN "except" ELSE "exitZodbConnection"
    /\ UNCHANGED <<mode, exc, pending, interaction, tm, log, calls, it,
                   stack, lastExit, start>>

\* ZopeSite exits (contextmanagers.py:71-72): hooks.setSite(oldsite); an
\* exception in flight then reaches the except clause of thread.py:116
ExitZopeSite ==
    /\ mode = "worker" /\ pc = "exitZopeSite"
    /\ site' = it.oldsite
    /\ lifo' = (lifo /\ IsInnermost(held, "site"))
    /\ held' = Release(held, "site")
    /\ pc' = IF exc # NoExc THEN "except" ELSE "exitZodbConnection"
    /\ UNCHANGED <<mode, exc, pending, interaction, db, conn, tm, log, calls,
                   it, stack, lastExit, start>>

\* thread.py:116-120  except: self.log.exception("Exception in %s" % name)
LogException ==
    /\ mode = "worker" /\ pc = "except"
    /\ log' = Append(log, [msg |-> IterationMsg, exc |-> exc, n |-> it.n])
    /\ it' = [it EXCEPT !.logged = @ + 1]
    /\ exc' = NoExc
    /\ pc' = "exitZodbConnection"
    /\ UNCHANGED <<mode, pending, interaction, site, db, conn, tm, calls,
                   held, lifo, stack, lastExit, start>>

\* ZodbConnection exits (contextmanagers.py:53): closing() closes conn
ExitZodbConnection ==
    /\ mode = "worker" /\ pc = "exitZodbConnection"
    /\ db' = DbClose(db)
    /\ conn' = "closed"
    /\ lifo' = (lifo /\ IsInnermost(held, "connection"))
    /\ held' = Release(held, "connection")
    /\ pc' = "exitZopeInteraction"
    /\ UNCHANGED <<mode, exc, pending, interaction, site, tm, log, calls, it,
                   stack, lastExit, start>>

\* ExitZopeInteraction with a fault: thread.py:96 is an if, not a while
ExitZopeInteraction_Once ==
    /\ mode = "worker" /\ pc = "exitZopeInteraction"
    /\ interaction' = FALSE
    /\ lifo' = (lifo /\ IsInnermost(held, "interaction"))
    /\ held' = Release(held, "interaction")
    /\ pc' = IF exc # NoExc THEN "terminated" ELSE "done"
    /\ UNCHANGED <<mode, exc, pending, site, db, conn, tm, log, calls, it,
                   stack, lastExit, start>>

\* ZopeInteraction exits (contextmanagers.py:39-40): endInteraction(); the
\* loop then evaluates its condition again
ExitZopeInteraction ==
    /\ mode = "worker" /\ pc = "exitZopeInteraction"
    /\ interaction' = FALSE
    /\ lifo' = (lifo /\ IsInnermost(held, "interaction"))
    /\ held' = Release(held, "interaction")
    /\ pc' = IF exc # NoExc THEN "terminated" ELSE "scheduleNextWork"
    /\ UNCHANGED <<mode, exc, pending, site, db, conn, tm, log, calls, it,
                   stack, lastExit, start>>

\* LogTerminated with a fault: the outer handler sits inside the loop
LogTerminated_Resume ==
    /\ mode = "worker" /\ pc = "terminated"
    /\ log' = Append(log, [msg |-> TerminatedMsg, exc |-> exc, n |-> it.n])
    /\ exc' = NoExc
    /\ pc' = "scheduleNextWork"
    /\ UNCHANGED <<mode, pending, interaction, site, db, conn, tm, calls, it,
                   held, lifo, stack, lastExit, start>>

\* thread.py:121-122  except: self.log.exception("Exception in %s, thread
\* terminated" % name); run() returns
LogTerminated ==
    /\ mode = "worker" /\ pc = "terminated"
    /\ log' = Append(log, [msg |-> TerminatedMsg, exc |-> exc, n |-> it.n])
    /\ exc' = NoExc
    /\ pc' = "done"
    /\ UNCHANGED <<mode, pending, interaction, site, db, conn, tm, calls, it,
                   held, lifo, stack, lastExit, start>>

----------------------------------------------------------------------------
(* Failures of what run() calls besides its three hooks: db.open(),        *)
(* connection.get(), transaction.begin(), txn.note(), commit(), abort(),   *)
(* hooks.setSite(), conn.close(), endInteraction() and the logger.  Each   *)
(* action is the step of the same name when its call raises; the          *)
(* exception then travels as Python propagates it.                         *)

HookErrors == {"WorkError", "CleanupError"}

\* the failures followed are those of one iteration of a run: a call can
\* fail as long as no earlier iteration has logged such a failure
CanFail ==
    \A k \in 1..Len(log) : log[k].n = it.n \/ log[k].exc \in HookErrors

\* contextmanagers.py:53  db.open() raises: no connection exists, the
\* exception leaves ZodbConnection and reaches the exit of ZopeInteraction
EnterZodbConnectionFails ==
    /\ mode = "worker" /\ pc = "ZodbConnection"
    /\ CanFail
    /\ exc' = "OpenError"
    /\ pc' = "exitZopeInteraction"
    /\ UNCHANGED <<mode, pending, interaction, site, db, conn, tm, log, calls,
                   it, held, lifo, stack, lastExit, start>>

\* GetSiteFails with a fault: getSite(conn) is evaluated outside the try of
\* thread.py:99
GetSiteFails_Outside ==
    /\ mode = "worker" /\ pc = "getSite"
    /\ CanFail
    /\ exc' = "GetSiteError"
    /\ pc' = "exitZodbConnection"
    /\ UNCHANGED <<mode, pending, interaction, site, db, conn, tm, log, calls,
                   it, held, lifo, stack, lastExit, start>>

\* GetSiteFails with a fault: getSite(conn) is evaluated inside the try of
\* thread.py:101, so that the finally clause runs the cleanup
GetSiteFails_InsideFinally ==
    /\ mode = "worker" /\ pc = "getSite"
    /\ CanFail
    /\ pending' = "GetSiteError"
    /\ pc' = "cleanupTransaction"
    /\ UNCHANGED <<mode, exc, interaction, site, db, conn, tm, log, calls,
                   it, held, lifo, stack, lastExit, start>>

\* thread.py:100,91  connection.get(site_oid) raises, inside the try of
\* thread.py:99 and before ZopeSite is entered
GetSiteFails ==
    /\ mode = "worker" /\ pc = "getSite"
    /\ CanFail
    /\ exc' = "GetSiteError"
    /\ pc' = "except"
    /\ UNCHANGED <<mode, pending, interaction, site, db, conn, tm, log, calls,
                   it, held, lifo, stack, lastExit, start>>

\* the transaction manager after a failed entry of ZopeTransaction:
\* transaction.begin() raised (contextmanagers.py:96, outside the try), or
\* txn.note() raised (contextmanagers.py:101) and the except clause aborted
FailedEnter(m, e) ==
    IF e = "BeginError" THEN m ELSE TxnAbort(TxnBegin(m))

\* EnterWorkTransactionFails with a fault: the work ZopeTransaction is
\* entered outside the try of thread.py:101, its failure skips the finally
\* clause
EnterWorkTransactionFails_NoFinally ==
    /\ mode = "worker" /\ pc = "workTransaction"
    /\ CanFail
    /\ \E e \in {"BeginError", "NoteError"} :
          /\ tm' = FailedEnter(tm, e)
          /\ exc' = e
    /\ pc' = "exitZopeSite"
    /\ UNCHANGED <<mode, pending, interaction, site, db, conn, log, calls, it,
                   held, lifo, stack, lastExit, start>>

\* thread.py:102-104  ZopeTransaction raises before its yield: doWork() is
\* not called and the finally clause of thread.py:106 holds the exception
EnterWorkTransactionFails ==
    /\ mode = "worker" /\ pc = "workTransaction"
    /\ CanFail
    /\ \E e \in {"BeginError", "NoteError"} :
          /\ tm' = FailedEnter(tm, e)
          /\ pending' = e
    /\ pc' = "cleanupTransaction"
    /\ UNCHANGED <<mode, exc, interaction, site, db, conn, log, calls, it,
                   held, lifo, stack, lastExit, start>>

\* the exceptions the exit of ZopeTransaction can raise itself: commit()
\* (contextmanagers.py:105) when the body returned, abort()
\* (contextmanagers.py:107) in either case
ExitFailures(e) ==
    IF e = NoExc THEN {"CommitError", "AbortError"} ELSE {"AbortError"}

\* FailedExit with a fault: ZopeTransaction has no except clause, a failed
\* commit() is not followed by abort()
FailedExit_NoAbort(m, e) == TxnGet(m)

\* the transaction manager after a failed exit: abort() ran after a failed
\* commit(), or abort() itself failed and the transaction stays ambient
FailedExit(m, e) ==
    IF e = "CommitError" THEN TxnAbort(m) ELSE TxnGet(m)

\* the work ZopeTransaction exits and commit() or abort() raises
ExitWorkTransactionFails ==
    /\ mode = "worker" /\ pc = "exitWorkTransaction"
    /\ CanFail
    /\ \E e \in ExitFailures(exc) :
          /\ tm' = FailedExit(tm, e)
          /\ lastExit' = [ExitRecord(tm, exc, it.workTxn) EXCEPT !.excOut = e]
          /\ pending' = e
    /\ lifo' = (lifo /\ IsInnermost(held, "transaction"))
    /\ held' = Release(held, "transaction")
    /\ exc' = NoExc
    /\ pc' = "cleanupTransaction"
    /\ UNCHANGED <<mode, interaction, site, db, conn, log, calls, it, stack,
                   start>>

\* thread.py:112-114  the cleanup ZopeTransaction raises before its yield:
\* doCleanup() is not called, the exception replaces the one held
EnterCleanupTransactionFails ==
    /\ mode = "worker" /\ pc = "cleanupTransaction"
    /\ CanFail
    /\ \E e \in {"BeginError", "NoteError"} :
          /\ tm' = FailedEnter(tm, e)
          /\ exc' = e
    /\ pending' = NoExc
    /\ pc' = "exitZopeSite"
    /\ UNCHANGED <<mode, interaction, site, db, conn, log, calls, it, held,
                   lifo, stack, lastExit, start>>

\* the cleanup ZopeTransaction exits and commit() or abort() raises
ExitCleanupTransactionFails ==
    /\ mode = "worker" /\ pc = "exitCleanupTransaction"
    /\ CanFail
    /\ \E e \in ExitFailures(exc) :
          /\ tm' = FailedExit(tm, e)
          /\ lastExit' = [ExitRecord(tm, exc, it.cleanupTxn)
                              EXCEPT !.excOut = e]
          /\ exc' = e
    /\ lifo' = (lifo /\ IsInnermost(held, "transaction"))
    /\ held' = Release(held, "transaction")
    /\ pending' = NoExc
    /\ pc' = "exitZopeSite"
    /\ UNCHANGED <<mode, interaction, site, db, conn, log, calls, it, stack,
                   start>>

\* contextmanagers.py:72  hooks.setSite(oldsite) raises: the site is not
\* restored, the exception reaches the except clause of thread.py:116
ExitZopeSiteFails ==
    /\ mode = "worker" /\ pc = "exitZopeSite"
    /\ CanFail
    /\ exc' = "SetSiteError"
    /\ lifo' = (lifo /\ IsInnermost(held, "site"))
    /\ held' = Release(held, "site")
    /\ pc' = "except"
    /\ UNCHANGED <<mode, pending, interaction, site, db, conn, tm, log, calls,
                   it, stack, lastExit, start>>

\* thread.py:120  self.log.exception() raises inside the except clause: the
\* exception leaves the try statement of thread.py:99
LogExceptionFails ==
    /\ mode = "worker" /\ pc = "except"
    /\ CanFail
    /\ exc' = "LogError"
    /\ pc' = "exitZodbConnection"
    /\ UNCHANGED <<mode, pending, interaction, site, db, conn, tm, log, calls,
                   it, held, lifo, stack, lastExit, start>>

\* contextmanagers.py:53  conn.close() raises in closing()
ExitZodbConnectionFails ==
    /\ mode = "worker" /\ pc = "exitZodbConnection"
    /\ CanFail
    /\ exc' = "CloseError"
    /\ lifo' = (lifo /\ IsInnermost(held, "connection"))
    /\ held' = Release(held, "connection")
    /\ pc' = "exitZopeInteraction"
    /\ UNCHANGED <<mode, pending, interaction, site, db, conn, tm, log, calls,
                   it, stack, lastExit, start>>

\* ExitZopeInteractionFails with a fault: the with-statement of
\* thread.py:97 is outside the try of thread.py:95
ExitZopeInteractionFails_Uncaught ==
    /\ mode = "worker" /\ pc = "exitZopeInteraction"
    /\ CanFail
    /\ exc' = "EndInteractionError"
    /\ lifo' = (lifo /\ IsInnermost(held, "interaction"))
    /\ held' = Release(held, "interaction")
    /\ pc' = "escaped"
    /\ UNCHANGED <<mode, pending, interaction, site, db, conn, tm, log, calls,
                   it, stack, lastExit, start>>

\* contextmanagers.py:40  endInteraction() raises
ExitZopeInteractionFails ==
    /\ mode = "worker" /\ pc = "exitZopeInteraction"
    /\ CanFail
    /\ exc' = "EndInteractionError"
    /\ lifo' = (lifo /\ IsInnermost(held, "interaction"))
    /\ held' = Release(held, "interaction")
    /\ pc' = "terminated"
    /\ UNCHANGED <<mode, pending, interaction, site, db, conn, tm, log, calls,
                   it, stack, lastExit, start>>

\* thread.py:122  self.log.exception() raises inside the outer except
\* clause: the exception leaves run()
LogTerminatedFails ==
    /\ mode = "worker" /\ pc = "terminated"
    /\ CanFail
    /\ exc' = "LogError"
    /\ pc' = "escaped"
    /\ UNCHANGED <<mode, pending, interaction, site, db, conn, tm, log, calls,
                   it, held, lifo, stack, lastExit, start>>

----------------------------------------------------------------------------
(* A client of the helpers: with-statements over the four helpers in any   *)
(* nesting, a body that joins a data manager to the ambient transaction,   *)
(* commits or aborts it itself, or raises.  stack holds one frame per      *)
(* with-statement entered; Python exits them innermost first.              *)

ClientSites == {"outer", "inner"}

\* arguments given to ZopeTransaction(user=None, note=None)
ClientTxnArgs == {[user |-> "", note |-> ""]}

\* the locals of a helper between its entry and its exit: ZopeSite's site
\* and oldsite, ZopeTransaction's txn (prev: the transaction found at entry)
Frame(kind, oldsite, newsite, txn, prev) ==
    [kind |-> kind, oldsite |-> oldsite, newsite |-> newsite, txn |-> txn,
     prev |-> prev]

CanEnter ==
    /\ mode = "client" /\ pc = "body" /\ exc = NoExc
    /\ Len(stack) < MaxDepth

\* ClientEnterZopeInteraction with a fault: newInteraction does not refuse a
\* second interaction
ClientEnterZopeInteraction_Nested ==
    /\ CanEnter
    /\ interaction' = TRUE
    /\ stack' = Append(stack, Frame("interaction", NoSite, NoSite, 0, 0))
    /\ held' = Acquire(held, "interaction")
    /\ UNCHANGED <<mode, pc, exc, pending, site, db, conn, tm, log, calls, it,
                   lifo, lastExit, start>>

\* with ZopeInteraction():   (contextmanagers.py:36)
ClientEnterZopeInteraction ==
    /\ CanEnter
    /\ IF interaction
       THEN /\ exc' = "InteractionError"
            /\ UNCHANGED <<interaction, stack, held>>
       ELSE /\ interaction' = TRUE
            /\ stack' = Append(stack,
                               Frame("interaction", NoSite, NoSite, 0, 0))
            /\ held' = Acquire(held, "interaction")
            /\ UNCHANGED exc
    /\ UNCHANGED <<mode, pc, pending, site, db, conn, tm, log, calls, it,
                   lifo, lastExit, start>>

\* with ZodbConnection(db) as conn:   (contextmanagers.py:53)
ClientEnterZodbConnection ==
    /\ CanEnter
    /\ db.opened - start.opened < MaxOpen
    /\ db' = DbOpen(db)
    /\ stack' = Append(stack, Frame("connection", NoSite, NoSite, 0, 0))
    /\ held' = Acquire(held, "connection")
    /\ UNCHANGED <<mode, pc, exc, pending, interaction, site, conn, tm, log,
                   calls, it, lifo, lastExit, start>>

\* with ZopeSite(s):   (contextmanagers.py:67-70)
ClientEnterZopeSite ==
    /\ CanEnter
    /\ \E s \in ClientSites :
          /\ stack' = Append(stack, Frame("site", site, s, 0, 0))
          /\ site' = s
    /\ held' = Acquire(held, "site")
    /\ UNCHANGED <<mode, pc, exc, pending, interaction, db, conn, tm, log,
                   calls, it, lifo, lastExit, start>>

\* with ZopeTransaction(user, note) as txn:   (contextmanagers.py:96-102)
ClientEnterZopeTransaction ==
    /\ CanEnter
    /\ Len(tm.txns) < MaxTxns
    /\ \E a \in ClientTxnArgs :
          tm' = ZopeTransactionEnter(tm, a.user, a.note)
    /\ stack' = Append(stack, Frame("transaction", NoSite, NoSite,
                                    tm'.cur, tm.cur))
    /\ held' = Acquire(held, "transaction")
    /\ UNCHANGED <<mode, pc, exc, pending, interaction, site, db, conn, log,
                   calls, it, lifo, lastExit, start>>

\* the body joins a data manager: transaction.get().join(dm)
ClientJoin ==
    /\ mode = "client" /\ pc = "body" /\ exc = NoExc
    /\ tm.cur = 0 => Len(tm.txns) < MaxTxns
    /\ tm' = [TxnGet(tm) EXCEPT !.txns[TxnGet(tm).cur].joined = TRUE]
    /\ tm' # tm
    /\ UNCHANGED <<mode, pc, exc, pending, interaction, site, db, conn, log,
                   calls, it, held, lifo, stack, lastExit, start>>

\* the body finishes the ambient transaction itself
ClientCommit ==
    /\ mode = "client" /\ pc = "body" /\ exc = NoExc
    /\ tm.cur # 0
    /\ tm' = TxnCommit(tm)
    /\ UNCHANGED <<mode, pc, exc, pending, interaction, site, db, conn, log,
                   calls, it, held, lifo, stack, lastExit, start>>

ClientAbort ==
    /\ mode = "client" /\ pc = "body" /\ exc = NoExc
    /\ tm.cur # 0
    /\ tm' = TxnAbort(tm)
    /\ UNCHANGED <<mode, pc, exc, pending, interaction, site, db, conn, log,
                   calls, it, held, lifo, stack, lastExit, start>>

\* the body raises
ClientRaise ==
    /\ mode = "client" /\ pc = "body" /\ exc = NoExc
    /\ stack # <<>>
    /\ exc' = "BodyError"
    /\ UNCHANGED <<mode, pc, pending, interaction, site, db, conn, tm, log,
                   calls, it, held, lifo, stack, lastExit, start>>

\* ClientExit with a fault: ZopeSite clears the site instead of restoring it
ClientExit_ClearSite ==
    /\ mode = "client" /\ pc = "body"
    /\ stack # <<>>
    /\ (stack[Len(stack)].kind = "transaction" /\ tm.cur = 0)
          => Len(tm.txns) < MaxTxns
    /\ LET f == stack[Len(stack)]
       IN /\ stack' = SubSeq(stack, 1, Len(stack) - 1)
          /\ lifo' = (lifo /\ IsInnermost(held, f.kind))
          /\ held' = Release(held, f.kind)
          /\ interaction' = IF f.kind = "interaction" THEN FALSE
                            ELSE interaction
          /\ db' = IF f.kind = "connection" THEN DbClose(db) ELSE db
          /\ site' = IF f.kind = "site" THEN NoSite ELSE site
          /\ tm' = IF f.kind = "transaction"
                   THEN ZopeTransactionExit(tm, exc) ELSE tm
          /\ lastExit' = IF f.kind = "transaction"
                         THEN ExitRecord(tm, exc, f.txn) ELSE lastExit
          /\ exc' = IF f.kind = "transaction" /\ exc # NoExc
                    THEN Reraise(exc) ELSE exc
    /\ UNCHANGED <<mode, pc, pending, conn, log, calls, it, start>>

\* ClientExit with a fault: ZodbConnection closes without closing(), only
\* when the body returned
ClientExit_NoClosing ==
    /\ mode = "client" /\ pc = "body"
    /\ stack # <<>>
    /\ (stack[Len(stack)].kind = "transaction" /\ tm.cur = 0)
          => Len(tm.txns) < MaxTxns
    /\ LET f == stack[Len(stack)]
       IN /\ stack' = SubSeq(stack, 1, Len(stack) - 1)
          /\ lifo' = (lifo /\ IsInnermost(held, f.kind))
          /\ held' = Release(held, f.kind)
          /\ interaction' = IF f.kind = "interaction" THEN FALSE
                            ELSE interaction
          /\ db' = IF f.kind = "connection" /\ exc = NoExc
                   THEN DbClose(db) ELSE db
          /\ site' = IF f.kind = "site" THEN f.oldsite ELSE site
          /\ tm' = IF f.kind = "transaction"
                   THEN ZopeTransactionExit(tm, exc) ELSE tm
          /\ lastExit' = IF f.kind = "transaction"
                         THEN ExitRecord(tm, exc, f.txn) ELSE lastExit
          /\ exc' = IF f.kind = "transaction" /\ exc # NoExc
                    THEN Reraise(exc) ELSE exc
    /\ UNCHANGED <<mode, pc, pending, conn, log, calls, it, start>>

\* ClientExit with a fault: ZopeTransaction calls txn.commit() and
\* txn.abort() on the transaction it yielded
ClientExit_YieldedTxn ==
    /\ mode = "client" /\ pc = "body"
    /\ stack # <<>>
    /\ (stack[Len(stack)].kind = "transaction" /\ tm.cur = 0)
          => Len(tm.txns) < MaxTxns
    /\ LET f == stack[Len(stack)]
       IN /\ stack' = SubSeq(stack, 1, Len(stack) - 1)
          /\ lifo' = (lifo /\ IsInnermost(held, f.kind))
          /\ held' = Release(held, f.kind)
          /\ interaction' = IF f.kind = "interaction" THEN FALSE
                            ELSE interaction
          /\ db' = IF f.kind = "connection" THEN DbClose(db) ELSE db
          /\ site' = IF f.kind = "site" THEN f.oldsite ELSE site
          /\ tm' = IF f.kind = "transaction"
                   THEN [tm EXCEPT !.txns[f.txn].status =
                                       IF exc = NoExc THEN "committed"
                                       ELSE "aborted"]
                   ELSE tm
          /\ lastExit' = IF f.kind = "transaction"
                         THEN ExitRecord(tm, exc, f.txn) ELSE lastExit
          /\ exc' = IF f.kind = "transaction" /\ exc # NoExc
                    THEN Reraise(exc) ELSE exc
    /\ UNCHANGED <<mode, pc, pending, conn, log, calls, it, start>>

\* the innermost with-statement exits, normally or with exc in flight
ClientExit ==
    /\ mode = "client" /\ pc = "body"
    /\ stack # <<>>
    /\ (stack[Len(stack)].kind = "transaction" /\ tm.cur = 0)
          => Len(tm.txns) < MaxTxns
    /\ LET f == stack[Len(stack)]
       IN /\ stack' = SubSeq(stack, 1, Len(stack) - 1)
          /\ lifo' = (lifo /\ IsInnermost(held, f.kind))
          /\ held' = Release(held, f.kind)
          /\ interaction' = IF f.kind = "interaction" THEN FALSE
                            ELSE interaction
          /\ db' = IF f.kind = "connection" THEN DbClose(db) ELSE db
          /\ site' = IF f.kind = "site" THEN f.oldsite ELSE site
          /\ tm' = IF f.kind = "transaction"
                   THEN ZopeTransactionExit(tm, exc) ELSE tm
          /\ lastExit' = IF f.kind = "transaction"
                         THEN ExitRecord(tm, exc, f.txn) ELSE lastExit
          /\ exc' = IF f.kind = "transaction" /\ exc # NoExc
                    THEN Reraise(exc) ELSE exc
    /\ UNCHANGED <<mode, pc, pending, conn, log, calls, it, start>>

\* the exception is caught by the code around the with-statements
ClientCatch ==
    /\ mode = "client" /\ pc = "body"
    /\ exc # NoExc
    /\ exc' = NoExc
    /\ UNCHANGED <<mode, pc, pending, interaction, site, db, conn, tm, log,
                   calls, it, held, lifo, stack, lastExit, start>>

----------------------------------------------------------------------------

EmptyTm == [txns |-> <<>>, cur |-> 0]

\* an uncommitted transaction with a data manager joined to it
DirtyTm == [txns |-> <<[NewTxn EXCEPT !.joined = TRUE]>>, cur |-> 1]

Init ==
    /\ mode \in {"worker", "client"}
    /\ pc = IF mode = "worker" THEN "scheduleNextWork" ELSE "body"
    /\ exc = NoExc
    /\ pending = NoExc
    /\ interaction \in IF mode = "worker" THEN BOOLEAN ELSE {FALSE}
    /\ site \in {NoSite, "outer"}
    /\ db \in {[opened |-> o, closed |-> 0] :
                 o \in IF mode = "worker" THEN {0, 1} ELSE {0}}
    /\ conn = "none"
    /\ tm \in {EmptyTm, DirtyTm}
    /\ log = <<>>
    /\ calls = <<>>
    /\ it = NoIteration
    /\ held = <<>>
    /\ lifo = TRUE
    /\ stack = <<>>
    /\ lastExit = NoExit
    /\ \E u \in IF mode = "worker" THEN UserNames ELSE {""} :
          start = [interaction |-> interaction, site |-> site,
                   opened |-> db.opened, closed |-> db.closed,
                   tm |-> tm, user_name |-> u]

Next ==
    \/ ScheduleNextWork
    \/ EnterZopeInteraction
    \/ EnterZodbConnection
    \/ GetSite
    \/ EnterZopeSite
    \/ EnterWorkTransaction
    \/ DoWork
    \/ ExitWorkTransaction
    \/ EnterCleanupTransaction
    \/ DoCleanup
    \/ ExitCleanupTransaction
    \/ ExitZopeSite
    \/ LogException
    \/ ExitZodbConnection
    \/ ExitZopeInteraction
    \/ LogTerminated
    \/ ClientEnterZopeInteraction
    \/ ClientEnterZodbConnection
    \/ ClientEnterZopeSite
    \/ ClientEnterZopeTransaction
    \/ ClientJoin
    \/ ClientCommit
    \/ ClientAbort
    \/ ClientRaise
    \/ ClientExit
    \/ ClientCatch

Spec == Init /\ [][Next]_vars


\* run() alone, with the failures of what it calls, for a thread with a
\* user name and a database that has opened no connection yet
InitFaults ==
    /\ Init
    /\ mode = "worker"
    /\ db.opened = 0
    /\ start.user_name = "someuser"

NextFaults ==
    \/ ScheduleNextWork
    \/ EnterZopeInteraction
    \/ EnterZodbConnection
    \/ GetSite
    \/ EnterZopeSite
    \/ EnterWorkTransaction
    \/ DoWork
    \/ ExitWorkTransaction
    \/ EnterCleanupTransaction
    \/ DoCleanup
    \/ ExitCleanupTransaction
    \/ ExitZopeSite
    \/ LogException
    \/ ExitZodbConnection
    \/ ExitZopeInteraction
    \/ LogTerminated
    \/ EnterZodbConnectionFails
    \/ GetSiteFails
    \/ EnterWorkTransactionFails
    \/ ExitWorkTransactionFails
    \/ EnterCleanupTransactionFails
    \/ ExitCleanupTransactionFails
    \/ ExitZopeSiteFails
    \/ LogExceptionFails
    \/ ExitZodbConnectionFails
    \/ ExitZopeInteractionFails
    \/ LogTerminatedFails

SpecFaults == InitFaults /\ [][NextFaults]_vars


\* run() started where a site is set and a transaction is left uncommitted
InitFair ==
    /\ InitFaults
    /\ site = "outer"
    /\ tm = DirtyTm

\* the thread keeps running while run() has a step to take: every call
\* returns or raises, and scheduleNextWork() returns True at most MaxIter
\* times
SpecFaultsFair == InitFair /\ [][NextFaults]_vars /\ WF_vars(NextFaults)

----------------------------------------------------------------------------
(* Several BackgroundWorkerThreads running run() at once against one       *)
(* database handle.  mode is "workers"; pc, exc, pending, it and held are  *)
(* functions of the thread; so are interaction, site and tm, which         *)
(* zope.security.management, zope.component.hooks and the transaction      *)
(* package keep per thread, and conn, a local of run(); db and log are     *)
(* shared.  A step of the model is one step of run() in one thread.        *)

Threads == {"w1", "w2"}

\* scheduleNextWork() of each thread returns True at most MaxRounds times
MaxRounds == 1

\* thread.py:96  while self.scheduleNextWork():
ConcScheduleNextWork(t) ==
    /\ mode = "workers" /\ pc[t] = "scheduleNextWork"
    /\ \E r \in {"True", "False", "raise"} :
          /\ r = "True" => it[t].n < MaxRounds
          /\ pc' = [pc EXCEPT ![t] = CASE r = "True" -> "ZopeInteraction"
                                       [] r = "False" -> "done"
                                       [] OTHER -> "terminated"]
          /\ exc' = [exc EXCEPT ![t] = IF r = "raise" THEN "ScheduleError"
                                       ELSE NoExc]
          /\ it' = [it EXCEPT ![t] =
                       IF r = "True"
                       THEN [NoIteration EXCEPT !.n = it[t].n + 1]
                       ELSE it[t]]
    /\ UNCHANGED <<mode, pending, interaction, site, db, conn, tm, log, calls,
                   held, lifo, stack, lastExit, start>>

\* thread.py:97  with ZopeInteraction():  (contextmanagers.py:36)
ConcEnterZopeInteraction(t) ==
    /\ mode = "workers" /\ pc[t] = "ZopeInteraction"
    /\ IF interaction[t]
       THEN /\ exc' = [exc EXCEPT ![t] = "InteractionError"]
            /\ pc' = [pc EXCEPT ![t] = "terminated"]
            /\ UNCHANGED <<interaction, held>>
       ELSE /\ interaction' = [interaction EXCEPT ![t] = TRUE]
            /\ held' = [held EXCEPT ![t] = Acquire(held[t], "interaction")]
            /\ pc' = [pc EXCEPT ![t] = "ZodbConnection"]
            /\ UNCHANGED exc
    /\ UNCHANGED <<mode, pending, site, db, conn, tm, log, calls, it, lifo,
                   stack, lastExit, start>>

\* thread.py:98  with ZodbConnection(self.site_db) as conn:
ConcEnterZodbConnection(t) ==
    /\ mode = "workers" /\ pc[t] = "ZodbConnection"
    /\ db' = DbOpen(db)
    /\ conn' = [conn EXCEPT ![t] = "open"]
    /\ held' = [held EXCEPT ![t] = Acquire(held[t], "connection")]
    /\ pc' = [pc EXCEPT ![t] = "getSite"]
    /\ UNCHANGED <<mode, exc, pending, interaction, site, tm, log, calls, it,
                   lifo, stack, lastExit, start>>

\* thread.py:100  self.getSite(conn)
ConcGetSite(t) ==
    /\ mode = "workers" /\ pc[t] = "getSite"
    /\ it' = [it EXCEPT ![t].siteobj = TheSite]
    /\ pc' = [pc EXCEPT ![t] = "ZopeSite"]
    /\ UNCHANGED <<mode, exc, pending, interaction, site, db, conn, tm, log,
                   calls, held, lifo, stack, lastExit, start>>

\* ConcEnterZopeSite with a fault: the current site is one for the process,
\* not one per thread
ConcEnterZopeSite_Shared(t) ==
    /\ mode = "workers" /\ pc[t] = "ZopeSite"
    /\ it' = [it EXCEPT ![t].oldsite = site[t]]
    /\ site' = [u \in Threads |-> it[t].siteobj]
    /\ held' = [held EXCEPT ![t] = Acquire(held[t], "site")]
    /\ pc' = [pc EXCEPT ![t] = "workTransaction"]
    /\ UNCHANGED <<mode, exc, pending, interaction, db, conn, tm, log, calls,
                   lifo, stack, lastExit, start>>

\* thread.py:100  with ZopeSite(...):  (contextmanagers.py:67-70)
ConcEnterZopeSite(t) ==
    /\ mode = "workers" /\ pc[t] = "ZopeSite"
    /\ it' = [it EXCEPT ![t].oldsite = site[t]]
    /\ site' = [site EXCEPT ![t] = it[t].siteobj]
    /\ held' = [held EXCEPT ![t] = Acquire(held[t], "site")]
    /\ pc' = [pc EXCEPT ![t] = "workTransaction"]
    /\ UNCHANGED <<mode, exc, pending, interaction, db, conn, tm, log, calls,
                   lifo, stack, lastExit, start>>

\* thread.py:102-104  with ZopeTransaction(user=..., note=getTransactionNote())
ConcEnterWorkTransaction(t) ==
    /\ mode = "workers" /\ pc[t] = "workTransaction"
    /\ tm' = [tm EXCEPT ![t] = ZopeTransactionEnter(tm[t], start.user_name,
                                                    getTransactionNote)]
    /\ it' = [it EXCEPT ![t].workTxn = tm'[t].cur]
    /\ held' = [held EXCEPT ![t] = Acquire(held[t], "transaction")]
    /\ pc' = [pc EXCEPT ![t] = "doWork"]
    /\ UNCHANGED <<mode, exc, pending, interaction, site, db, conn, log,
                   calls, lifo, stack, lastExit, start>>

\* thread.py:105  self.doWork()
ConcDoWork(t) ==
    /\ mode = "workers" /\ pc[t] = "doWork"
    /\ \E r \in {"return", "raise"} :
          exc' = [exc EXCEPT ![t] = IF r = "raise" THEN "WorkError" ELSE NoExc]
    /\ pc' = [pc EXCEPT ![t] = "exitWorkTransaction"]
    /\ UNCHANGED <<mode, pending, interaction, site, db, conn, tm, log, calls,
                   it, held, lifo, stack, lastExit, start>>

\* the work ZopeTransaction exits (contextmanagers.py:105-108); an exception
\* is then held by the finally clause of thread.py:106
ConcExitWorkTransaction(t) ==
    /\ mode = "workers" /\ pc[t] = "exitWorkTransaction"
    /\ tm' = [tm EXCEPT ![t] = ZopeTransactionExit(tm[t], exc[t])]
    /\ held' = [held EXCEPT ![t] = Release(held[t], "transaction")]
    /\ pending' = [pending EXCEPT ![t] = Reraise(exc[t])]
    /\ exc' = [exc EXCEPT ![t] = NoExc]
    /\ pc' = [pc EXCEPT ![t] = "cleanupTransaction"]
    /\ UNCHANGED <<mode, interaction, site, db, conn, log, calls, it, lifo,
                   stack, lastExit, start>>

\* thread.py:112-114  with ZopeTransaction(user=..., note=getCleanupNote())
ConcEnterCleanupTransaction(t) ==
    /\ mode = "workers" /\ pc[t] = "cleanupTransaction"
    /\ tm' = [tm EXCEPT ![t] = ZopeTransactionEnter(tm[t], start.user_name,
                                                    getCleanupNote)]
    /\ it' = [it EXCEPT ![t].cleanupTxn = tm'[t].cur]
    /\ held' = [held EXCEPT ![t] = Acquire(held[t], "transaction")]
    /\ pc' = [pc EXCEPT ![t] = "doCleanup"]
    /\ UNCHANGED <<mode, exc, pending, interaction, site, db, conn, log,
                   calls, lifo, stack, lastExit, start>>

\* thread.py:115  self.doCleanup()
ConcDoCleanup(t) ==
    /\ mode = "workers" /\ pc[t] = "doCleanup"
    /\ \E r \in {"return", "raise"} :
          exc' = [exc EXCEPT ![t] = IF r = "raise" THEN "CleanupError"
                                    ELSE NoExc]
    /\ pc' = [pc EXCEPT ![t] = "exitCleanupTransaction"]
    /\ UNCHANGED <<mode, pending, interaction, site, db, conn, tm, log, calls,
                   it, held, lifo, stack, lastExit, start>>

\* the cleanup ZopeTransaction exits and the finally clause ends
ConcExitCleanupTransaction(t) ==
    /\ mode = "workers" /\ pc[t] = "exitCleanupTransaction"
    /\ tm' = [tm EXCEPT ![t] = ZopeTransactionExit(tm[t], exc[t])]
    /\ held' = [held EXCEPT ![t] = Release(held[t], "transaction")]
    /\ exc' = [exc EXCEPT ![t] = IF exc[t] # NoExc THEN Reraise(exc[t])
                                 ELSE pending[t]]
    /\ pending' = [pending EXCEPT ![t] = NoExc]
    /\ pc' = [pc EXCEPT ![t] = "exitZopeSite"]
    /\ UNCHANGED <<mode, interaction, site, db, conn, log, calls, it, lifo,
                   stack, lastExit, start>>

\* ZopeSite exits (contextmanagers.py:71-72): hooks.setSite(oldsite)
ConcExitZopeSite(t) ==
    /\ mode = "workers" /\ pc[t] = "exitZopeSite"
    /\ site' = [site EXCEPT ![t] = it[t].oldsite]
    /\ held' = [held EXCEPT ![t] = Release(held[t], "site")]
    /\ pc' = [pc EXCEPT ![t] = IF exc[t] # NoExc THEN "except"
                               ELSE "exitZodbConnection"]
    /\ UNCHANGED <<mode, exc, pending, interaction, db, conn, tm, log, calls,
                   it, lifo, stack, lastExit, start>>

\* thread.py:116-120  except: self.log.exception("Exception in %s" % name)
ConcLogException(t) ==
    /\ mode = "workers" /\ pc[t] = "except"
    /\ log' = Append(log, [msg |-> IterationMsg, exc |-> exc[t],
                           n |-> it[t].n, thread |-> t])
    /\ it' = [it EXCEPT ![t].logged = @ + 1]
    /\ exc' = [exc EXCEPT ![t] = NoExc]
    /\ pc' = [pc EXCEPT ![t] = "exitZodbConnection"]
    /\ UNCHANGED <<mode, pending, interaction, site, db, conn, tm, calls,
                   held, lifo, stack, lastExit, start>>

\* ZodbConnection exits (contextmanagers.py:53): closing() closes conn
ConcExitZodbConnection(t) ==
    /\ mode = "workers" /\ pc[t] = "exitZodbConnection"
    /\ db' = DbClose(db)
    /\ conn' = [conn EXCEPT ![t] = "closed"]
    /\ held' = [held EXCEPT ![t] = Release(held[t], "connection")]
    /\ pc' = [pc EXCEPT ![t] = "exitZopeInteraction"]
    /\ UNCHANGED <<mode, exc, pending, interaction, site, tm, log, calls, it,
                   lifo, stack, lastExit, start>>

\* ZopeInteraction exits (contextmanagers.py:39-40): endInteraction()
ConcExitZopeInteraction(t) ==
    /\ mode = "workers" /\ pc[t] = "exitZopeInteraction"
    /\ interaction' = [interaction EXCEPT ![t] = FALSE]
    /\ held' = [held EXCEPT ![t] = Release(held[t], "interaction")]
    /\ pc' = [pc EXCEPT ![t] = IF exc[t] # NoExc THEN "terminated"
                               ELSE "scheduleNextWork"]
    /\ UNCHANGED <<mode, exc, pending, site, db, conn, tm, log, calls, it,
                   lifo, stack, lastExit, start>>

\* thread.py:121-122  the outer handler; run() returns
ConcLogTerminated(t) ==
    /\ mode = "workers" /\ pc[t] = "terminated"
    /\ log' = Append(log, [msg |-> TerminatedMsg, exc |-> exc[t],
                           n |-> it[t].n, thread |-> t])
    /\ exc' = [exc EXCEPT ![t] = NoExc]
    /\ pc' = [pc EXCEPT ![t] = "done"]
    /\ UNCHANGED <<mode, pending, interaction, site, db, conn, tm, calls, it,
                   held, lifo, stack, lastExit, start>>

\* the threads are started: a new thread has no interaction, no site and
\* no transaction; the database has opened no connection yet
InitWorkers ==
    /\ mode = "workers"
    /\ pc = [t \in Threads |-> "scheduleNextWork"]
    /\ exc = [t \in Threads |-> NoExc]
    /\ pending = [t \in Threads |-> NoExc]
    /\ interaction = [t \in Threads |-> FALSE]
    /\ site = [t \in Threads |-> NoSite]
    /\ db = [opened |-> 0, closed |-> 0]
    /\ conn = [t \in Threads |-> "none"]
    /\ tm = [t \in Threads |-> EmptyTm]
    /\ log = <<>>
    /\ calls = <<>>
    /\ it = [t \in Threads |-> NoIteration]
    /\ held = [t \in Threads |-> <<>>]
    /\ lifo = TRUE
    /\ stack = <<>>
    /\ lastExit = NoExit
    /\ start = [interaction |-> FALSE, site |-> NoSite, opened |-> 0,
                closed |-> 0, tm |-> EmptyTm, user_name |-> "someuser"]

NextWorkers ==
    \E t \in Threads :
        \/ ConcScheduleNextWork(t)
        \/ ConcEnterZopeInteraction(t)
        \/ ConcEnterZodbConnection(t)
        \/ ConcGetSite(t)
        \/ ConcEnterZopeSite(t)
        \/ ConcEnterWorkTransaction(t)
        \/ ConcDoWork(t)
        \/ ConcExitWorkTransaction(t)
        \/ ConcEnterCleanupTransaction(t)
        \/ ConcDoCleanup(t)
        \/ ConcExitCleanupTransaction(t)
        \/ ConcExitZopeSite(t)
        \/ ConcLogException(t)
        \/ ConcExitZodbConnection(t)
        \/ ConcExitZopeInteraction(t)
        \/ ConcLogTerminated(t)

SpecWorkers == InitWorkers /\ [][NextWorkers]_vars

----------------------------------------------------------------------------
(* Properties of BackgroundWorkerThread.run() *)

Worker == mode = "worker"

SchedTrue == Call("scheduleNextWork", "True")

\* the number of times scheduleNextWork() has returned True
NumScheduled == Cardinality({j \in 1..Len(calls) : calls[j] = SchedTrue})

\* the iteration the i-th hook call belongs to
IterOf(i) == Cardinality({j \in 1..i : calls[j] = SchedTrue})

NumCalls(hook) == Cardinality({j \in 1..Len(calls) : calls[j].hook = hook})

HookRaised(i) ==
    /\ calls[i].hook \in {"doWork", "doCleanup"}
    /\ calls[i].result = "raise"

\* C1: every doWork() is followed, in the same iteration, by exactly one
\* doCleanup(), whether doWork() returned or raised, and that doCleanup()
\* comes before the next scheduleNextWork(): in the sequence of hook calls a
\* doWork is directly followed by a doCleanup and that by a
\* scheduleNextWork, and while a doWork is the last call run() is still
\* between doWork() and doCleanup() of that iteration.
C1_CleanupFollowsWork ==
    \A i \in 1..Len(calls) :
        calls[i].hook = "doWork" =>
            IF i = Len(calls)
            THEN pc \in {"exitWorkTransaction", "cleanupTransaction",
                         "doCleanup"}
            ELSE /\ calls[i + 1].hook = "doCleanup"
                 /\ IterOf(i + 1) = IterOf(i)
                 /\ i + 2 <= Len(calls)
                        => calls[i + 2].hook = "scheduleNextWork"

\* doWork() raised, doCleanup() ran and scheduleNextWork() was asked again
C1_Witness ==
    \E i \in 1..Len(calls) :
        /\ calls[i] = Call("doWork", "raise")
        /\ i + 2 <= Len(calls)
        /\ calls[i + 1].hook = "doCleanup"
        /\ calls[i + 2].hook = "scheduleNextWork"

\* C2: an exception of doWork() or doCleanup() never ends the loop: it never
\* reaches the outer handler, every record logged for it carries the
\* message "Exception in <thread name>" without the "thread terminated"
\* suffix, an iteration in which a hook raised has logged such a record by
\* the time the loop condition is evaluated again, and run() ends only on a
\* call of scheduleNextWork(), so that the hook called after a raising
\* doCleanup() is scheduleNextWork().
C2_HookErrorsNotTerminal ==
    /\ \A k \in 1..Len(log) :
           log[k].exc \in {"WorkError", "CleanupError"}
               => log[k].msg = IterationMsg
    /\ (exc \in {"WorkError", "CleanupError"}
            \/ pending \in {"WorkError", "CleanupError"})
           => pc \notin {"terminated", "done", "scheduleNextWork"}
    /\ \A i \in 1..Len(calls) :
           HookRaised(i) =>
               \/ /\ IterOf(i) = it.n
                  /\ pc \in {"exitWorkTransaction", "cleanupTransaction",
                             "doCleanup", "exitCleanupTransaction",
                             "exitZopeSite", "except"}
               \/ \E k \in 1..Len(log) :
                      /\ log[k].n = IterOf(i)
                      /\ log[k].msg = IterationMsg
                      /\ log[k].exc \in {"WorkError", "CleanupError"}
    /\ \A i \in 1..Len(calls) :
           (calls[i] = Call("doCleanup", "raise") /\ i < Len(calls))
               => calls[i + 1].hook = "scheduleNextWork"
    /\ (Worker /\ pc \in {"terminated", "done"})
           => /\ calls # <<>>
              /\ calls[Len(calls)].hook = "scheduleNextWork"
              /\ \/ calls[Len(calls)].result \in {"False", "raise"}
                 \/ start.interaction

\* both hooks have raised in some iteration and the loop went on
C2_Witness ==
    \E i \in 1..Len(calls) :
        /\ calls[i] = Call("doCleanup", "raise")
        /\ i < Len(calls)
        /\ \E j \in 1..Len(calls) : calls[j] = Call("doWork", "raise")
        /\ log # <<>>

\* C3: when scheduleNextWork() raises, run() terminates at once: that call
\* is the last hook call, nothing was acquired for the attempt (no scope is
\* held, the interaction marker is as before run(), every connection opened
\* so far belongs to an earlier iteration and is closed), and once run() has
\* returned exactly one record with the "thread terminated" message has
\* been logged, for that exception, as the last record.
C3_ScheduleErrorTerminates ==
    \A i \in 1..Len(calls) :
        calls[i] = Call("scheduleNextWork", "raise") =>
            /\ i = Len(calls)
            /\ pc \in {"terminated", "done"}
            /\ held = <<>>
            /\ interaction = start.interaction
            /\ conn # "open"
            /\ db.opened = start.opened + NumScheduled
            /\ db.closed = start.closed + NumScheduled
            /\ NumCalls("doWork") <= NumScheduled
            /\ NumCalls("doCleanup") <= NumScheduled
            /\ LET T == {k \in 1..Len(log) : log[k].msg = TerminatedMsg}
               IN IF pc = "done"
                  THEN /\ T = {Len(log)}
                       /\ log[Len(log)].exc = "ScheduleError"
                  ELSE T = {}

\* scheduleNextWork() raised after a completed iteration; run() returned
C3_Witness ==
    /\ pc = "done"
    /\ NumScheduled >= 1
    /\ calls[Len(calls)] = Call("scheduleNextWork", "raise")

\* C4: when scheduleNextWork() has returned True N times and then False,
\* the hook calls are N times (scheduleNextWork, doWork, doCleanup) and the
\* final scheduleNextWork, so doWork() and doCleanup() each ran N times in
\* alternation, and the database's opened and closed counters have each
\* grown by N, whatever doWork() and doCleanup() returned or raised.
C4_NIterations ==
    (Worker /\ pc = "done" /\ calls[Len(calls)].result = "False") =>
        LET N == NumScheduled
        IN /\ Len(calls) = 3 * N + 1
           /\ \A j \in 0..(N - 1) :
                  /\ calls[3 * j + 1] = SchedTrue
                  /\ calls[3 * j + 2].hook = "doWork"
                  /\ calls[3 * j + 3].hook = "doCleanup"
           /\ NumCalls("doWork") = N
           /\ NumCalls("doCleanup") = N
           /\ db.opened = start.opened + N
           /\ db.closed = start.closed + N

\* two iterations, a hook raised in one of them, then False
C4_Witness ==
    /\ Worker /\ pc = "done"
    /\ calls[Len(calls)].result = "False"
    /\ NumScheduled >= 2
    /\ \E i \in 1..Len(calls) : HookRaised(i)

\* C5: if no interaction is active when run() starts, then whenever
\* scheduleNextWork() is about to be called and after run() has returned,
\* whatever the hooks returned or raised, no interaction is active, the
\* current site is the one from before run(), and the loop has closed every
\* connection it opened.
C5_NothingLeftBehind ==
    (Worker /\ ~start.interaction /\ pc \in {"scheduleNextWork", "done"}) =>
        /\ ~interaction
        /\ site = start.site
        /\ db.opened - start.opened = db.closed - start.closed
        /\ conn # "open"

\* run() has returned after an iteration in which a hook raised, on a
\* thread that had a current site before
C5_Witness ==
    /\ Worker /\ ~start.interaction /\ pc = "done"
    /\ start.site # NoSite
    /\ it.n >= 1
    /\ log # <<>>

\* the transaction's user after ZopeTransaction(user=u): "/ <u>", and
\* nothing is attached for an empty u
UserTag(u) == IF u = "" THEN "" ELSE "/ " \o u

InnerScopes == <<"interaction", "connection", "site", "transaction">>

\* C6: while doWork() executes, the four scopes of the iteration are open:
\* an interaction is active, the iteration's connection is open, the
\* current site is the site getSite(conn) returned, and the ambient
\* transaction is the one begun for this iteration's work, still active and
\* carrying user_name and the work note.
C6_WorkInsideAllScopes ==
    (Worker /\ pc = "doWork") =>
        /\ interaction
        /\ conn = "open"
        /\ db.opened - db.closed = start.opened - start.closed + 1
        /\ it.siteobj = TheSite
        /\ site = it.siteobj
        /\ it.workTxn # 0
        /\ tm.cur = it.workTxn
        /\ it.workTxn = Len(tm.txns)
        /\ tm.txns[tm.cur].status = "active"
        /\ tm.txns[tm.cur].user = UserTag(start.user_name)
        /\ tm.txns[tm.cur].note = getTransactionNote
        /\ held = InnerScopes

\* doWork() is about to run in a second iteration, for a named user, on a
\* thread whose site pointer was set before run()
C6_Witness ==
    /\ Worker /\ pc = "doWork"
    /\ it.n >= 2
    /\ start.user_name # ""
    /\ start.site # NoSite

\* the outcome of the last doWork() call
LastWorkResult ==
    LET W == {j \in 1..Len(calls) : calls[j].hook = "doWork"}
    IN calls[CHOOSE j \in W : \A k \in W : k <= j].result

\* C7: while doCleanup() executes, the work transaction of the iteration is
\* already committed or aborted, the ambient transaction is another one,
\* begun later, active and carrying the cleanup note, and the interaction,
\* connection and site scopes of the iteration are still open; from the
\* exit of the work scope to the end of the iteration, whatever doCleanup()
\* does, the work transaction is committed exactly if doWork() returned.
C7_CleanupInOwnTransaction ==
    /\ (Worker /\ pc = "doCleanup") =>
           /\ it.workTxn # 0
           /\ tm.txns[it.workTxn].status \in {"committed", "aborted"}
           /\ tm.cur = it.cleanupTxn
           /\ it.cleanupTxn > it.workTxn
           /\ tm.txns[tm.cur].status = "active"
           /\ tm.txns[tm.cur].user = UserTag(start.user_name)
           /\ tm.txns[tm.cur].note = getCleanupNote
           /\ interaction
           /\ conn = "open"
           /\ site = it.siteobj
           /\ held = InnerScopes
    /\ (Worker /\ it.workTxn # 0
           /\ pc \notin {"doWork", "exitWorkTransaction"}) =>
           tm.txns[it.workTxn].status =
               IF LastWorkResult = "return" THEN "committed" ELSE "aborted"

\* doCleanup() has raised after a doWork() that returned
C7_Witness ==
    /\ Worker /\ pc = "exitCleanupTransaction"
    /\ exc = "CleanupError"
    /\ LastWorkResult = "return"
    /\ tm.txns[it.workTxn].status = "committed"

IsPrefix(a, b) == Len(a) <= Len(b) /\ a = SubSeq(b, 1, Len(a))

\* C8: scopes are exited in the reverse of the order they were entered:
\* every exit so far was the exit of the innermost scope held (also with an
\* exception in flight); in run() the scopes held are always interaction,
\* connection, site, transaction up to some depth, and none is held when
\* scheduleNextWork() is called or run() has returned; in a client the
\* scopes held are the with-statements entered and not yet exited.
C8_ReverseOrderRelease ==
    /\ lifo
    /\ Worker => IsPrefix(held, InnerScopes)
    /\ (Worker /\ pc \in {"scheduleNextWork", "terminated", "done"})
           => held = <<>>
    /\ ~Worker => /\ Len(held) = Len(stack)
                  /\ \A i \in 1..Len(stack) : held[i] = stack[i].kind

\* run() has unwound all four scopes with an exception of doCleanup()
C8_Witness ==
    /\ Worker /\ pc = "scheduleNextWork"
    /\ it.n >= 1
    /\ calls[Len(calls)] = Call("doCleanup", "raise")
    /\ held = <<>>

\* C9: ZopeTransaction commits the ambient transaction when its body
\* completes normally and aborts it when the body raises, re-raising the
\* same exception: the transaction finished by the last exit of a
\* ZopeTransaction scope is committed if no exception was in flight, and
\* aborted, with the same exception going on, if one was.
C9_CommitOrAbort ==
    lastExit.txn # 0 =>
        /\ lastExit.txn \in 1..Len(tm.txns)
        /\ lastExit.excIn = NoExc
               => /\ tm.txns[lastExit.txn].status = "committed"
                  /\ lastExit.excOut = NoExc
        /\ lastExit.excIn # NoExc
               => /\ tm.txns[lastExit.txn].status = "aborted"
                  /\ lastExit.excOut = lastExit.excIn

\* a client's body joined a data manager and raised
C9_Witness ==
    /\ ~Worker
    /\ lastExit.txn # 0
    /\ lastExit.excIn = "BodyError"
    /\ tm.txns[lastExit.txn].joined
    /\ tm.txns[lastExit.txn].status = "aborted"

\* C10: entering ZopeTransaction aborts the uncommitted transaction that is
\* ambient at entry and starts a new one: a transaction that was ambient
\* when a scope was entered is aborted for good, never committed; the
\* transaction of an open scope is not the one found at entry; in run(), a
\* transaction left uncommitted by earlier code on the thread is aborted as
\* soon as the first work scope is entered.
C10_EntryDiscardsAmbient ==
    /\ \A i \in 1..Len(tm.txns) :
           tm.txns[i].discarded => tm.txns[i].status = "aborted"
    /\ \A k \in 1..Len(stack) :
           stack[k].kind = "transaction" =>
               /\ stack[k].txn # stack[k].prev
               /\ stack[k].txn > stack[k].prev
               /\ stack[k].prev # 0 =>
                      /\ tm.txns[stack[k].prev].discarded
                      /\ tm.txns[stack[k].prev].status = "aborted"
    /\ (Worker /\ start.tm.cur # 0 /\ it.workTxn # 0) =>
           /\ tm.txns[start.tm.cur].status = "aborted"
           /\ it.workTxn > start.tm.cur
    /\ (Worker /\ pc \in {"doWork", "doCleanup"}) =>
           /\ tm.cur = Len(tm.txns)
           /\ ~tm.txns[tm.cur].joined

\* nested scopes in a client: the inner one discarded the outer one's
\* transaction, which had a data manager joined, and has itself committed
C10_Witness ==
    /\ ~Worker
    /\ Len(stack) = 1 /\ stack[1].kind = "transaction"
    /\ tm.txns[stack[1].txn].joined
    /\ tm.txns[stack[1].txn].discarded
    /\ \E j \in 1..Len(tm.txns) : tm.txns[j].status = "committed"

----------------------------------------------------------------------------
(* Properties of the helpers *)

\* the frames of kind k on the client's stack, outermost first
FramesOf(k) == SelectSeq(stack, LAMBDA f : f.kind = k)

\* C11: ZopeSite, at any nesting depth: while a scope's body runs the
\* current site is the site given to the innermost ZopeSite, and every exit,
\* normal or by exception, puts back the value found at that scope's entry:
\* the oldsite of the outermost scope is the site from before, the oldsite
\* of every other scope is the site given to the scope around it, and with
\* no ZopeSite open the current site is the one from before.  The same for
\* the single ZopeSite of run().
C11_SiteRestored ==
    /\ ~Worker =>
           LET F == FramesOf("site")
           IN IF Len(F) = 0 THEN site = start.site
              ELSE /\ site = F[Len(F)].newsite
                   /\ F[1].oldsite = start.site
                   /\ \A k \in 2..Len(F) : F[k].oldsite = F[k - 1].newsite
    /\ Worker =>
           IF \E k \in 1..Len(held) : held[k] = "site"
           THEN site = it.siteobj /\ it.oldsite = start.site
           ELSE site = start.site

\* A entered, B entered, B left by an exception: A is current again, and
\* there was no site before A
C11_Witness ==
    /\ ~Worker
    /\ start.site = NoSite
    /\ exc = "BodyError"
    /\ Len(stack) = 1
    /\ stack[1].kind = "site"
    /\ stack[1].newsite = "outer"
    /\ site = "outer"

\* C12: ZodbConnection closes every connection it opened exactly once, at
\* its exit, whether the body returned or raised, and the body's exception
\* goes on after the close: the connections opened and not yet closed are
\* those of the ZodbConnection scopes still open, and every step that
\* closes a connection is the exit of the innermost scope, a
\* ZodbConnection, closes one connection and leaves the exception in flight
\* as it is.
C12_ConnectionClosedOnce ==
    /\ [](/\ db.closed <= db.opened
          /\ ~Worker => db.opened - db.closed = Len(FramesOf("connection"))
          /\ Worker =>
                 /\ (conn = "open") <=>
                        (\E k \in 1..Len(held) : held[k] = "connection")
                 /\ (db.opened - start.opened) - (db.closed - start.closed)
                        = IF conn = "open" THEN 1 ELSE 0)
    /\ [][/\ db'.closed # db.closed =>
                 /\ db'.closed = db.closed + 1
                 /\ IsInnermost(held, "connection")
                 /\ held' = SubSeq(held, 1, Len(held) - 1)
                 /\ exc' = exc
          /\ (IsInnermost(held, "connection") /\ Len(held') < Len(held))
                 => db'.closed = db.closed + 1]_vars

\* a client's ZodbConnection was left by an exception: opened 1, closed 1
C12_Witness ==
    /\ ~Worker
    /\ exc = "BodyError"
    /\ stack = <<>>
    /\ db.opened = 1
    /\ db.closed = 1

\* how many scopes of kind k the thread is inside of
HeldCount(k) == Cardinality({i \in 1..Len(held) : held[i] = k})

\* C13: ZopeInteraction: a thread has at most one active interaction;
\* entering a ZopeInteraction scope while one is active fails with an error
\* and enters nothing, a scope is entered only when no interaction is
\* active, and the exit of an entered scope leaves no active interaction.
C13_OneInteraction ==
    /\ [](/\ HeldCount("interaction") <= 1
          /\ HeldCount("interaction") = 1 => interaction
          /\ ~Worker => Len(FramesOf("interaction")) = HeldCount("interaction")
          /\ ~Worker => (interaction <=> HeldCount("interaction") = 1))
    /\ [][/\ (exc' = "InteractionError" /\ exc # "InteractionError")
                 => interaction /\ UNCHANGED <<interaction, held, stack>>
          /\ (/\ interaction
              /\ pc = "ZopeInteraction" \/ ClientEnterZopeInteraction)
                 => exc' = "InteractionError"
          /\ Len(held') > Len(held) /\ IsInnermost(held', "interaction")
                 => ~interaction /\ interaction'
          /\ Len(held') < Len(held) /\ IsInnermost(held, "interaction")
                 => ~interaction']_vars

\* a client inside one ZopeInteraction tried to enter a second one
C13_Witness ==
    /\ ~Worker
    /\ exc = "InteractionError"
    /\ interaction
    /\ Len(stack) = 1
    /\ stack[1].kind = "interaction"

\* C14: when scheduleNextWork() returns False, run() returns cleanly: that
\* call is the last hook call and run() is over with no exception, no
\* "thread terminated" record exists, every log record belongs to an earlier
\* iteration, no scope is held, the interaction marker and the site are as
\* before run(), no connection was opened and neither doWork() nor
\* doCleanup() was called beyond those of the earlier iterations; when the
\* first call returns False (the default scheduleNextWork() always does),
\* the log is empty and nothing at all has changed.
C14_FalseExitsCleanly ==
    \A i \in 1..Len(calls) :
        calls[i] = Call("scheduleNextWork", "False") =>
            /\ i = Len(calls)
            /\ pc = "done"
            /\ exc = NoExc
            /\ held = <<>>
            /\ conn # "open"
            /\ interaction = start.interaction
            /\ site = start.site
            /\ \A k \in 1..Len(log) :
                   /\ log[k].msg = IterationMsg
                   /\ log[k].n \in 1..NumScheduled
            /\ db.opened = start.opened + NumScheduled
            /\ db.closed = start.closed + NumScheduled
            /\ NumCalls("doWork") = NumScheduled
            /\ NumCalls("doCleanup") = NumScheduled
            /\ i = 1 => /\ log = <<>>
                        /\ db = [opened |-> start.opened,
                                 closed |-> start.closed]
                        /\ tm = start.tm

\* the first scheduleNextWork() returned False and run() has returned
C14_Witness ==
    /\ Worker
    /\ calls = <<Call("scheduleNextWork", "False")>>
    /\ pc = "done"
    /\ log = <<>>

\* hook raised in iteration n
RaisedIn(n, hook) ==
    \E i \in 1..Len(calls) : IterOf(i) = n /\ calls[i] = Call(hook, "raise")

\* the log records the except clause of iteration n wrote
RecordsOf(n) ==
    {k \in 1..Len(log) : log[k].n = n /\ log[k].msg = IterationMsg}

\* iteration n has passed its except clause
Handled(n) ==
    \/ it.n > n
    \/ it.n = n /\ pc \in {"exitZodbConnection", "exitZopeInteraction",
                           "scheduleNextWork", "terminated", "done"}

\* C15: an iteration in which doWork() and/or doCleanup() raised gets
\* exactly one error record, with the per-iteration message; the exception
\* it carries is doCleanup()'s when both raised (doWork()'s is lost) and
\* doWork()'s when only doWork() raised; before the iteration reaches its
\* except clause it has no record, and no other record ever carries an
\* exception of doWork() or doCleanup().
C15_OneRecordPerIteration ==
    /\ \A n \in 1..it.n :
           (RaisedIn(n, "doWork") \/ RaisedIn(n, "doCleanup")) =>
               IF Handled(n)
               THEN /\ Cardinality(RecordsOf(n)) = 1
                    /\ \A k \in RecordsOf(n) :
                           log[k].exc = IF RaisedIn(n, "doCleanup")
                                        THEN "CleanupError"
                                        ELSE "WorkError"
               ELSE RecordsOf(n) = {}
    /\ \A k \in 1..Len(log) :
           log[k].exc \in {"WorkError", "CleanupError"}
               => log[k].msg = IterationMsg

\* both hooks raised in the first iteration and its record is written
C15_Witness ==
    /\ RaisedIn(1, "doWork")
    /\ RaisedIn(1, "doCleanup")
    /\ Handled(1)
    /\ Len(log) = 1
    /\ log[1].exc = "CleanupError"

----------------------------------------------------------------------------
(* Properties of run() when the calls it makes fail *)

\* the failures of getSite(conn) and of entering a ZopeTransaction
InnerAcquisitionErrors == {"GetSiteError", "BeginError", "NoteError"}

\* C16, as stated: a failure to open the connection, to fetch the site or
\* to begin a transaction, raised once a scope of the iteration is entered
\* (the interaction is, in each case), is handled like a work error: its log
\* record has the per-iteration message, and run() does not reach its outer
\* handler with it.
C16_AcquisitionNotTerminal ==
    /\ \A k \in 1..Len(log) :
           log[k].exc \in InnerAcquisitionErrors \cup {"OpenError"}
               => log[k].msg = IterationMsg
    /\ pc = "terminated"
           => exc \notin InnerAcquisitionErrors \cup {"OpenError"}

\* C16, amended: a failure to fetch the site or to enter a transaction
\* scope is raised inside the try of thread.py:99 and is handled like a work
\* error: while in flight it is on its way to the per-iteration handler, its
\* record has the per-iteration message and, unless something else fails,
\* run() goes on to scheduleNextWork(); a failure to open the connection is
\* raised outside that try, although the interaction scope is entered: with
\* no connection open it goes through the exit of ZopeInteraction to the
\* outer handler, and its record has the "thread terminated" message.
C16_InnerAcquisitionNotTerminal ==
    /\ \A k \in 1..Len(log) :
           /\ log[k].exc \in InnerAcquisitionErrors
                  => log[k].msg = IterationMsg
           /\ log[k].exc = "OpenError"
                  => log[k].msg = TerminatedMsg /\ k = Len(log)
    /\ exc \in InnerAcquisitionErrors => pc \in {"exitZopeSite", "except"}
    /\ pending \in InnerAcquisitionErrors
           => pc \in {"cleanupTransaction", "doCleanup",
                      "exitCleanupTransaction"}
    /\ exc = "OpenError"
           => /\ pc \in {"exitZopeInteraction", "terminated"}
              /\ conn # "open"
              /\ HeldCount("connection") = 0
    /\ (/\ Len(log) > 0
        /\ log[Len(log)].exc \in InnerAcquisitionErrors
        /\ log[Len(log)].n = it.n
        /\ exc = NoExc)
           => \/ pc \in {"exitZodbConnection", "exitZopeInteraction",
                         "scheduleNextWork"}
              \/ /\ pc = "done"
                 /\ calls[Len(calls)] = Call("scheduleNextWork", "False")

\* getSite(conn) failed in the first iteration, its record is written and
\* run() is in the second iteration
C16_Witness ==
    /\ Len(log) = 1
    /\ log[1] = [msg |-> IterationMsg, exc |-> "GetSiteError", n |-> 1]
    /\ it.n = 2
    /\ pc = "doWork"

----------------------------------------------------------------------------
(* Properties of run() on a thread that has an interaction already *)

\* C17, as stated: when an interaction is already active as an iteration
\* of run() starts its own, the error is logged and is not terminal: its
\* record has the per-iteration message and run() does not reach its outer
\* handler with it.
C17_InteractionErrorNotTerminal ==
    Worker =>
        /\ \A k \in 1..Len(log) :
               log[k].exc = "InteractionError" => log[k].msg = IterationMsg
        /\ exc = "InteractionError" => pc # "terminated"

\* C17, amended: when an interaction is already active as an iteration of
\* run() starts its own, the error terminates the thread: raised outside
\* the try of thread.py:99 it goes straight to the outer handler with no
\* scope held and no connection opened, its record has the "thread
\* terminated" message and is the last one, run() then returns without
\* another scheduleNextWork(), doWork() or doCleanup(), and the interaction
\* that was active stays active.
C17_InteractionErrorTerminates ==
    Worker =>
        /\ exc = "InteractionError"
               => /\ pc = "terminated"
                  /\ held = <<>>
                  /\ conn # "open"
                  /\ interaction
                  /\ calls[Len(calls)] = SchedTrue
        /\ \A k \in 1..Len(log) :
               log[k].exc = "InteractionError"
                   => /\ log[k].msg = TerminatedMsg
                      /\ k = Len(log)
                      /\ pc = "done"
                      /\ interaction
                      /\ calls[Len(calls)] = SchedTrue
                      /\ db.opened = start.opened + NumScheduled - 1
                      /\ NumCalls("doWork") = NumScheduled - 1
                      /\ NumCalls("doCleanup") = NumScheduled - 1

\* run() was started on a thread with an active interaction, scheduled one
\* unit of work and has returned
C17_Witness ==
    /\ Worker
    /\ start.interaction
    /\ pc = "done"
    /\ calls = <<SchedTrue>>
    /\ log = <<[msg |-> TerminatedMsg, exc |-> "InteractionError", n |-> 1]>>

\* C18: unless the logger raises, run() returns normally: the only
\* exception that leaves run() is one the logger raised in the outer
\* handler; an exception of scheduleNextWork(), getSite(), doWork(),
\* doCleanup() or of entering or leaving one of the four scopes is, while
\* in flight or held by the finally clause, inside the outer try and on its
\* way to a handler, never at the loop's condition nor past the end of
\* run(); run() has always a next step until it has returned or the
\* logger's exception has left it, and when it has returned no exception is
\* left.
C18_NothingEscapes ==
    /\ pc = "escaped" => exc = "LogError"
    /\ pc \in {"done", "scheduleNextWork"} => exc = NoExc /\ pending = NoExc
    /\ exc # NoExc
           => pc \in {"exitWorkTransaction", "exitCleanupTransaction",
                      "exitZopeSite", "except", "exitZodbConnection",
                      "exitZopeInteraction", "terminated", "escaped"}
    /\ pending # NoExc
           => pc \in {"cleanupTransaction", "doCleanup",
                      "exitCleanupTransaction"}
    /\ pc \notin {"done", "escaped"} => ENABLED NextFaults

\* endInteraction() failed, the outer handler logged it and run() returned
C18_Witness ==
    /\ pc = "done"
    /\ exc = NoExc
    /\ Len(log) > 0
    /\ log[Len(log)].msg = TerminatedMsg
    /\ log[Len(log)].exc = "EndInteractionError"

----------------------------------------------------------------------------
(* Properties of ZopeTransaction when its body ends transactions itself *)

\* C19: ZopeTransaction finishes the transaction that is ambient at its
\* exit, not the one it yielded: when the two differ (the body committed or
\* aborted the yielded transaction, or a nested scope discarded it, and a
\* new ambient transaction came into existence), the exit commits the
\* ambient one if the body returned and aborts it if the body raised, and
\* leaves the yielded one, finished before, as it was.
C19_FinishesAmbient ==
    /\ []((/\ lastExit.txn # 0
           /\ lastExit.yielded # lastExit.txn)
              => /\ lastExit.txn \in 1..Len(tm.txns)
                 /\ lastExit.yielded \in 1..Len(tm.txns)
                 /\ tm.txns[lastExit.txn].status =
                        IF lastExit.excIn = NoExc THEN "committed"
                        ELSE "aborted"
                 /\ tm.txns[lastExit.yielded].status
                        \in {"committed", "aborted"})
    /\ [][(/\ lastExit' # lastExit
           /\ lastExit'.yielded # lastExit'.txn)
              => /\ tm.cur # lastExit'.yielded
                 /\ tm'.txns[lastExit'.yielded] = tm.txns[lastExit'.yielded]
                 /\ tm'.cur = 0]_vars

\* a client's body committed the transaction it was given, joined a data
\* manager to a new one and raised: the new one is aborted
C19_Witness ==
    /\ ~Worker
    /\ lastExit.yielded = 1
    /\ lastExit.txn = 2
    /\ lastExit.excIn = "BodyError"
    /\ tm.txns[1].status = "committed"
    /\ tm.txns[2].joined
    /\ tm.txns[2].status = "aborted"

----------------------------------------------------------------------------
(* Properties of the per-iteration handler *)

\* the state in which the except clause of thread.py:116 runs
AtHandler ==
    /\ conn = "open"
    /\ interaction
    /\ held = <<"interaction", "connection">>
    /\ site = it.oldsite
    /\ site = start.site
    /\ tm.cur = 0
    /\ RaisedIn(it.n, "doWork") => tm.txns[it.workTxn].status = "aborted"
    /\ RaisedIn(it.n, "doCleanup")
           => tm.txns[it.cleanupTxn].status = "aborted"

\* C20: the per-iteration handler writes its record while the iteration's
\* connection is open and its interaction active, after the site is
\* restored and the failing transaction aborted, and the connection is
\* closed only after the record is written: the handler is reached and the
\* record is appended in such a state, which the append leaves as it is,
\* and when the connection of an iteration in which a hook raised is closed
\* the iteration's record exists and no exception is in flight.
C20_LoggedWhileConnectionOpen ==
    /\ []((Worker /\ pc = "except") => AtHandler /\ RecordsOf(it.n) = {})
    /\ [][(/\ Worker
           /\ Len(log') > Len(log)
           /\ log'[Len(log')].msg = IterationMsg)
              => /\ AtHandler
                 /\ conn' = "open"
                 /\ interaction'
                 /\ db' = db
                 /\ held' = held]_vars
    /\ [][(/\ Worker
           /\ db'.closed # db.closed
           /\ RaisedIn(it.n, "doWork") \/ RaisedIn(it.n, "doCleanup"))
              => /\ Cardinality(RecordsOf(it.n)) = 1
                 /\ exc = NoExc]_vars

\* doWork() raised, the record is written and the connection is still open
C20_Witness ==
    /\ Worker
    /\ pc = "exitZodbConnection"
    /\ conn = "open"
    /\ interaction
    /\ it.logged = 1
    /\ log[Len(log)] = [msg |-> IterationMsg, exc |-> "WorkError", n |-> it.n]
    /\ tm.txns[it.workTxn].status = "aborted"

----------------------------------------------------------------------------
(* Termination of run() *)

\* run() is over: it returned, or the logger's exception left it
Terminated == pc \in {"done", "escaped"}

\* C21: when every call returns or raises and scheduleNextWork() eventually
\* returns False or raises, run() eventually terminates; it terminates only
\* on a False result, with no "thread terminated" record, or on an
\* exception that reached the outer handler, whose record is then the last
\* one (unless the logger itself raised); and once run() has terminated no
\* hook is called again.
C21_Terminates ==
    /\ <>Terminated
    /\ [](pc = "done"
             => /\ Len(calls) > 0
                /\ IF calls[Len(calls)] = Call("scheduleNextWork", "False")
                   THEN \A k \in 1..Len(log) : log[k].msg # TerminatedMsg
                   ELSE /\ Len(log) > 0
                        /\ log[Len(log)].msg = TerminatedMsg)
    /\ [][/\ pc' = "terminated" => exc' # NoExc
          /\ pc' = "escaped" => pc = "terminated"
          /\ (pc' = "done" /\ pc # "done")
                 => \/ pc = "terminated"
                    \/ calls' = Append(calls,
                                       Call("scheduleNextWork", "False"))
          /\ Terminated => calls' = calls /\ pc' = pc]_vars

\* run() did one iteration, was told there is no more work and returned
C21_Witness ==
    /\ pc = "done"
    /\ Len(calls) = 4
    /\ calls[1] = SchedTrue
    /\ calls[4] = Call("scheduleNextWork", "False")

----------------------------------------------------------------------------
(* Properties of concurrent worker threads *)

\* thread u is inside a ZodbConnection scope
HoldsConnection(u) == \E k \in 1..Len(held[u]) : held[u][k] = "connection"

\* C22: two worker threads on one database handle, in every interleaving:
\* a thread's interaction marker changes only in a step of that thread that
\* enters or leaves its ZopeInteraction, its current site only in a step of
\* that thread that enters or leaves its ZopeSite; a thread holds at most
\* one open connection, and the connections the database has opened and not
\* closed are those the threads hold; once every thread has terminated the
\* database's opened and closed counters are equal, and no thread has an
\* interaction or a site left.
C22_ThreadsDoNotInterfere ==
    /\ [](\A u \in Threads :
             /\ Cardinality({k \in 1..Len(held[u]) :
                                held[u][k] = "connection"}) <= 1
             /\ (conn[u] = "open") <=> HoldsConnection(u))
    /\ [](db.opened - db.closed
              = Cardinality({u \in Threads : HoldsConnection(u)}))
    /\ []((\A u \in Threads : pc[u] = "done")
              => /\ db.opened = db.closed
                 /\ \A u \in Threads : ~interaction[u] /\ site[u] = NoSite)
    /\ [][\A u \in Threads :
             /\ interaction'[u] # interaction[u]
                    => /\ pc[u] \in {"ZopeInteraction", "exitZopeInteraction"}
                       /\ pc'[u] # pc[u]
             /\ site'[u] # site[u]
                    => /\ pc[u] \in {"ZopeSite", "exitZopeSite"}
                       /\ pc'[u] # pc[u]
             /\ pc'[u] # pc[u]
                    => \A v \in Threads \ {u} :
                           /\ pc'[v] = pc[v]
                           /\ conn'[v] = conn[v]
                           /\ held'[v] = held[v]
                           /\ tm'[v] = tm[v]]_vars

\* both threads are in doWork(), each with its own connection, site and
\* interaction
C22_Witness ==
    /\ mode = "workers"
    /\ \A u \in Threads :
           /\ pc[u] = "doWork"
           /\ conn[u] = "open"
           /\ interaction[u]
           /\ site[u] = TheSite
    /\ db = [opened |-> 2, closed |-> 0]

----------------------------------------------------------------------------
(* Properties of run() when single calls fail *)

\* the hook calls of iteration n after its scheduleNextWork()
HooksIn(n) ==
    {i \in 1..Len(calls) : IterOf(i) = n /\ calls[i].hook # "scheduleNextWork"}

\* C23: when getSite(conn) raises, the iteration enters no site scope,
\* begins no transaction and calls neither doWork() nor doCleanup(): the
\* exception goes straight to the per-iteration handler, with the
\* interaction and the connection held and the site untouched; its record
\* has the per-iteration message; and then, unless the exit of a scope
\* fails (another exception is in flight or logged after it), the
\* connection is closed, the interaction is ended and run() is back at
\* scheduleNextWork() with nothing held.
C23_GetSiteErrorSkipsIteration ==
    /\ pending # "GetSiteError"
    /\ exc = "GetSiteError"
           => /\ pc = "except"
              /\ held = <<"interaction", "connection">>
              /\ conn = "open"
              /\ interaction
              /\ site = start.site
              /\ it.siteobj = NoSite
              /\ it.workTxn = 0 /\ it.cleanupTxn = 0
              /\ HooksIn(it.n) = {}
    /\ \A k \in 1..Len(log) :
           log[k].exc = "GetSiteError"
               => /\ log[k].msg = IterationMsg
                  /\ HooksIn(log[k].n) = {}
                  /\ (log[k].n = it.n /\ exc = NoExc /\ k = Len(log))
                         => /\ site = start.site
                            /\ it.workTxn = 0 /\ it.cleanupTxn = 0
                            /\ pc \in {"exitZodbConnection",
                                       "exitZopeInteraction",
                                       "scheduleNextWork", "done"}
                            /\ pc \in {"scheduleNextWork", "done"}
                                   => /\ held = <<>>
                                      /\ conn = "closed"
                                      /\ ~interaction
                                      /\ db.closed = db.opened

\* getSite(conn) raised in the first iteration and run() is back at
\* scheduleNextWork() with the connection closed
C23_Witness ==
    /\ pc = "scheduleNextWork"
    /\ calls = <<SchedTrue>>
    /\ log = <<[msg |-> IterationMsg, exc |-> "GetSiteError", n |-> 1]>>
    /\ conn = "closed"
    /\ ~interaction

\* C24: when commit() raises at the normal exit of a ZopeTransaction, the
\* scope aborts the ambient transaction and re-raises the commit error; in
\* run(), when the commit of the work transaction fails after doWork()
\* returned, the finally clause holds the commit error while doCleanup()
\* runs in a new transaction of its own, tagged with the cleanup note, and
\* the error then goes to the per-iteration handler (unless the cleanup
\* fails too and its exception replaces it); a record of a commit error has
\* the per-iteration message and its iteration called doCleanup().
C24_CommitErrorAbortsAndCleansUp ==
    /\ lastExit.excOut = "CommitError"
           => /\ lastExit.excIn = NoExc
              /\ lastExit.txn \in 1..Len(tm.txns)
              /\ tm.txns[lastExit.txn].status = "aborted"
    /\ pending = "CommitError"
           => /\ pc \in {"cleanupTransaction", "doCleanup",
                         "exitCleanupTransaction"}
              /\ calls[Len(calls) - (IF pc = "exitCleanupTransaction"
                                     THEN 1 ELSE 0)]
                     = Call("doWork", "return")
              /\ tm.txns[it.workTxn].status = "aborted"
              /\ pc = "doCleanup"
                     => /\ it.cleanupTxn # it.workTxn
                        /\ tm.cur = it.cleanupTxn
                        /\ tm.txns[it.cleanupTxn].status = "active"
                        /\ tm.txns[it.cleanupTxn].note = getCleanupNote
    /\ (exc = "CommitError" /\ lastExit.excOut = NoExc)
           => /\ pc \in {"exitZopeSite", "except"}
              /\ calls[Len(calls)] = Call("doCleanup", "return")
              /\ tm.txns[it.workTxn].status = "aborted"
              /\ tm.txns[it.cleanupTxn].status = "committed"
    /\ \A k \in 1..Len(log) :
           log[k].exc = "CommitError"
               => /\ log[k].msg = IterationMsg
                  /\ \E i \in HooksIn(log[k].n) : calls[i].hook = "doCleanup"

\* the commit of the work transaction failed in the first iteration:
\* doCleanup() ran, the error is logged and run() is back at
\* scheduleNextWork()
C24_Witness ==
    /\ pc = "scheduleNextWork"
    /\ calls = <<SchedTrue, Call("doWork", "return"),
                 Call("doCleanup", "return")>>
    /\ log = <<[msg |-> IterationMsg, exc |-> "CommitError", n |-> 1]>>
    /\ tm.txns[it.workTxn].status = "aborted"
    /\ tm.txns[it.cleanupTxn].status = "committed"

\* the current iteration has entered its site scope
SiteEntered == it.n > 0 /\ it.siteobj # NoSite /\ pc # "ZopeSite"

\* the current iteration has left the finally clause of thread.py:106-115
PastFinally ==
    pc \in {"exitZopeSite", "except", "exitZodbConnection",
            "exitZopeInteraction", "scheduleNextWork", "terminated", "done",
            "escaped"}

\* the calls of hook in iteration n
HookCallsIn(n, hook) == {i \in HooksIn(n) : calls[i].hook = hook}

\* C25, as stated: once an iteration has entered its site scope,
\* doCleanup() is called exactly once in it, and doCleanup() is never
\* called fewer times than doWork().
C25_CleanupAlwaysRuns ==
    PastFinally =>
        /\ SiteEntered => Cardinality(HookCallsIn(it.n, "doCleanup")) = 1
        /\ NumCalls("doCleanup") >= NumCalls("doWork")

\* C25, amended: once an iteration has entered its site scope, a failure
\* to enter the work transaction scope skips doWork() and goes on to the
\* cleanup, so that doCleanup() can be called in an iteration that did not
\* call doWork(); doCleanup() is called once if the cleanup transaction
\* scope is entered and not at all if entering that scope fails, which can
\* happen after doWork() was called too: neither hook is called more than
\* once in an iteration, doWork() exactly when the work scope was entered,
\* doCleanup() exactly when the cleanup scope was.
C25_CleanupRunsIfItsScopeIsEntered ==
    /\ [](\A n \in 1..it.n :
             /\ Cardinality(HookCallsIn(n, "doWork")) <= 1
             /\ Cardinality(HookCallsIn(n, "doCleanup")) <= 1)
    /\ []((PastFinally /\ SiteEntered)
              => /\ Cardinality(HookCallsIn(it.n, "doWork"))
                     = IF it.workTxn # 0 THEN 1 ELSE 0
                 /\ Cardinality(HookCallsIn(it.n, "doCleanup"))
                     = IF it.cleanupTxn # 0 THEN 1 ELSE 0)
    /\ [][/\ (pc = "workTransaction" /\ pc' # pc)
                 => \/ pc' = "doWork" /\ it'.workTxn # 0
                    \/ /\ pc' = "cleanupTransaction"
                       /\ pending' \in {"BeginError", "NoteError"}
                       /\ it'.workTxn = 0
                       /\ calls' = calls
          /\ (pc = "cleanupTransaction" /\ pc' # pc)
                 => \/ pc' = "doCleanup" /\ it'.cleanupTxn # 0
                    \/ /\ pc' = "exitZopeSite"
                       /\ exc' \in {"BeginError", "NoteError"}
                       /\ it'.cleanupTxn = 0
                       /\ calls' = calls
          /\ (pc = "doCleanup" /\ pc' # pc)
                 => Len(calls') = Len(calls) + 1]_vars

\* entering the work transaction failed in the first iteration: doCleanup()
\* was called, doWork() was not
C25_Witness ==
    /\ pc = "scheduleNextWork"
    /\ calls = <<SchedTrue, Call("doCleanup", "return")>>
    /\ Len(log) = 1
    /\ log[1].msg = IterationMsg
    /\ log[1].exc \in {"BeginError", "NoteError"}
    /\ it.workTxn = 0
    /\ it.cleanupTxn # 0

====
